-------------------------- MODULE PreparationProofs --------------------------
(***************************************************************************)
(* Proofs about Preparation for any command lines, settings and services.  *)
(***************************************************************************)
EXTENDS Preparation, FiniteSetTheorems, SequenceTheorems, TLAPS

-----------------------------------------------------------------------------
(* What selects a credential *)

\* The scope as the flags, the profile and the variables state it, before anything is picked.
Stated == Scope(given.flags, given.env, Settings)

\* The credential that it selects.
Own == Resolved(given.flags, given.env, Stated, Settings)

OwnIsLogin == Own.name # None /\ Settings.accounts[Own.name].kind = "user"

\* The settings were opened without a mistake.
Opened == IsOpen /\ Directory(given.flags, given.env).value \notin Relative

\* A credential depends on a scope by its organization, environments and account alone.
LEMMA ResolvedBy ==
    ASSUME NEW flags, NEW env, NEW s, NEW t, NEW settings,
           s.org.value = t.org.value, s.envs.value = t.envs.value, s.account.value = t.account.value
    PROVE  /\ Selected(flags, env, s, settings) = Selected(flags, env, t, settings)
           /\ Resolved(flags, env, s, settings) = Resolved(flags, env, t, settings)
<1>1. SelectAccount(s, settings) = SelectAccount(t, settings)
  BY DEF SelectAccount
<1>2. ASSUME NEW account PROVE BoundElsewhere(account, s) = BoundElsewhere(account, t)
  BY DEF BoundElsewhere
<1>3. Selected(flags, env, s, settings) = Selected(flags, env, t, settings)
  BY <1>1, <1>2 DEF Selected
<1> QED BY <1>3 DEF Resolved

\* A login that is selected is whatever organization and environments are.
LEMMA LoginByAccount ==
    ASSUME NEW flags, NEW env, NEW s, NEW t, NEW settings,
           s.account.value = t.account.value,
           Resolved(flags, env, s, settings).error = Ok,
           Resolved(flags, env, s, settings).name # None,
           settings.accounts[Resolved(flags, env, s, settings).name].kind = "user"
    PROVE  Resolved(flags, env, t, settings) = Resolved(flags, env, s, settings)
<1>1. SelectAccount(s, settings) = SelectAccount(t, settings)
  BY DEF SelectAccount
<1> DEFINE name == SelectAccount(s, settings).name
           account == settings.accounts[name]
           a == Selected(flags, env, s, settings)
           b == Selected(flags, env, t, settings)
<1>2. a.problem = Ok /\ a.name = Resolved(flags, env, s, settings).name
  BY DEF Resolved, Ok
<1>3. a.name = name /\ AmbientKey(flags, env) = None
  BY <1>2 DEF Selected
<1>4. account.kind = "user"
  BY <1>2, <1>3
<1>5. ~BoundElsewhere(account, s) /\ ~BoundElsewhere(account, t)
  BY <1>4 DEF BoundElsewhere
<1>6. a = b
  BY <1>1, <1>3, <1>5 DEF Selected
<1> QED BY <1>6 DEF Resolved

\* What the scope in use says as a whole.
LEMMA EffectiveParts ==
    /\ Effective.org.value = scope.org /\ Effective.envs.value = scope.envs
    /\ Effective.account = Stated.account
BY DEF Effective, Stated, Scope, FlagOr, Sourced, Ambient

\* What may be said of a credential that is used: nothing is wrong with it, it is no key that is
\* bound elsewhere, and the account that is named is it.
LEMMA UsedAsNamed ==
    ASSUME NEW flags, NEW env, NEW s, NEW settings,
           Resolved(flags, env, s, settings).error = Ok
    PROVE  LET used == Resolved(flags, env, s, settings) IN
           /\ Selected(flags, env, s, settings).problem = Ok
           /\ used.name = Selected(flags, env, s, settings).name
           /\ used.key = Selected(flags, env, s, settings).key
           /\ AmbientKey(flags, env) = None \/ used.name = None
           /\ AmbientKey(flags, env) = None => used.key = None /\ used.name = SelectAccount(s, settings).name
           /\ used.name # None => ~BoundElsewhere(settings.accounts[used.name], s)
<1> DEFINE selected == Selected(flags, env, s, settings)
           used == Resolved(flags, env, s, settings)
<1>1. selected.problem = Ok
  BY DEF Resolved, Ok
<1>2. selected.key # None => selected.name = None
  BY DEF Selected
<1>3. used.name = selected.name /\ used.key = selected.key
  BY <1>1, <1>2 DEF Resolved, Ok
<1>4. AmbientKey(flags, env) # None => selected.name = None
  BY DEF Selected
<1>5. AmbientKey(flags, env) = None => /\ SelectAccount(s, settings).problem = Ok
                                       /\ selected.key = None
                                       /\ selected.name = SelectAccount(s, settings).name
                                       /\ ~BoundElsewhere(settings.accounts[selected.name], s)
  BY <1>1 DEF Selected, Ok
<1> QED BY <1>1, <1>3, <1>4, <1>5

\* An account is selected by its name, or is the only one that is saved.
LEMMA AccountIsNamed ==
    ASSUME NEW s, NEW settings, SelectAccount(s, settings).problem = Ok
    PROVE  /\ SelectAccount(s, settings).name \in DOMAIN settings.accounts
           /\ s.account.value # None => SelectAccount(s, settings).name = s.account.value
<1> DEFINE saved == DOMAIN settings.accounts
<1>1. CASE s.account.value # None
  BY <1>1 DEF SelectAccount, Ok
<1>2. CASE s.account.value = None
  <2>1. Cardinality({}) # 1
    BY FS_EmptySet
  <2>2. saved # {}
    BY <1>2, <2>1 DEF SelectAccount, Ok
  <2>3. SelectAccount(s, settings).name = CHOOSE a \in saved : TRUE
    BY <1>2, <2>2 DEF SelectAccount, Ok
  <2> QED BY <1>2, <2>2, <2>3
<1> QED BY <1>1, <1>2

\* The variables that are said to be ignored, one by one: for the parts of a scope and the
\* directory, those with a value that is not theirs.
LEMMA IgnoredParts ==
    ASSUME NEW flags, NEW env, NEW settings, NEW v \in Variables, env[v] # None
    PROVE  v \in Ignored(flags, env, settings) <=>
             CASE v = "org" -> flags.org # None \/ flags.profile # None
               [] v = "env" -> flags.envs # <<>> \/ flags.profile # None
               [] v = "wallet" -> flags.wallet # None \/ flags.profile # None
               [] v = "dir" -> flags.dir # None
               [] v = "key" -> flags.profile # None \/ flags.account # None
<1>1. CASE v = "org"
  BY <1>1 DEF Ignored, Scope, FlagOr, Sourced, Ambient, IsSilent
<1>2. CASE v = "env"
  BY <1>2 DEF Ignored, Scope, FlagOr, Sourced, Ambient, IsSilent
<1>3. CASE v = "wallet"
  BY <1>3 DEF Ignored, Scope, FlagOr, Sourced, Ambient, IsSilent
<1>4. CASE v = "dir"
  BY <1>4 DEF Ignored, Directory, Sourced, IsSilent
<1>5. CASE v = "key"
  BY <1>5 DEF Ignored, AmbientKey
<1> QED BY <1>1, <1>2, <1>3, <1>4, <1>5 DEF Variables

\* What is used of an environment of variables.
Using(flags, env, settings) ==
    [dir |-> Directory(flags, env), scope |-> Scope(flags, env, settings),
     credential |-> Resolved(flags, env, Scope(flags, env, settings), settings)]

\* One variable that is unset leaves the directory, the scope and the key as they were exactly
\* where it is ignored.
LEMMA UnsetIsIgnored ==
    ASSUME NEW flags, NEW env, NEW settings, NEW v \in Variables, env[v] # None,
           Variables \subseteq DOMAIN env
    PROVE  v \in Ignored(flags, env, settings)
             <=> Using(flags, [env EXCEPT ![v] = None], settings) = Using(flags, env, settings)
<1> DEFINE other == [env EXCEPT ![v] = None]
           used(e) == Using(flags, e, settings)
<1>v. other[v] = None /\ \A w \in Variables \ {v} : other[w] = env[w]
  OBVIOUS
<1>s. ASSUME AmbientKey(flags, other) = AmbientKey(flags, env),
             Scope(flags, other, settings) = Scope(flags, env, settings)
      PROVE  Using(flags, other, settings).credential = Using(flags, env, settings).credential
  BY <1>s DEF Using, Resolved, Selected
<1>1. CASE v = "org"
  <2>1. /\ other.org = None /\ other.env = env.env /\ other.wallet = env.wallet
        /\ other.dir = env.dir /\ other.key = env.key
    BY <1>v, <1>1 DEF Variables
  <2>2. AmbientKey(flags, other) = AmbientKey(flags, env) /\ Directory(flags, other) = Directory(flags, env)
    BY <2>1 DEF AmbientKey, Directory
  <2>3. CASE flags.org # None \/ flags.profile # None
    <3>1. Scope(flags, other, settings) = Scope(flags, env, settings)
      BY <2>1, <2>3 DEF Scope, FlagOr, Ambient
    <3>2. v \in Ignored(flags, env, settings)
      BY <1>1, <2>3, IgnoredParts
    <3> QED BY <1>s, <2>2, <3>1, <3>2 DEF Using
  <2>4. CASE flags.org = None /\ flags.profile = None
    <3>1. Scope(flags, other, settings).org.value # Scope(flags, env, settings).org.value
      BY <1>1, <2>1, <2>4 DEF Scope, FlagOr, Ambient, Sourced
    <3> QED BY <1>1, <2>4, <3>1, IgnoredParts DEF Using
  <2> QED BY <2>3, <2>4
<1>2. CASE v = "env"
  <2>1. /\ other.env = None /\ other.org = env.org /\ other.wallet = env.wallet
        /\ other.dir = env.dir /\ other.key = env.key
    BY <1>v, <1>2 DEF Variables
  <2>2. AmbientKey(flags, other) = AmbientKey(flags, env) /\ Directory(flags, other) = Directory(flags, env)
    BY <2>1 DEF AmbientKey, Directory
  <2>3. CASE flags.envs # <<>> \/ flags.profile # None
    <3>1. Scope(flags, other, settings) = Scope(flags, env, settings)
      BY <2>1, <2>3 DEF Scope, FlagOr, Ambient
    <3>2. v \in Ignored(flags, env, settings)
      BY <1>2, <2>3, IgnoredParts
    <3> QED BY <1>s, <2>2, <3>1, <3>2 DEF Using
  <2>4. CASE flags.envs = <<>> /\ flags.profile = None
    <3>1. Scope(flags, other, settings).envs.value # Scope(flags, env, settings).envs.value
      BY <1>2, <2>1, <2>4 DEF Scope
    <3> QED BY <1>2, <2>4, <3>1, IgnoredParts DEF Using
  <2> QED BY <2>3, <2>4
<1>3. CASE v = "wallet"
  <2>1. /\ other.wallet = None /\ other.org = env.org /\ other.env = env.env
        /\ other.dir = env.dir /\ other.key = env.key
    BY <1>v, <1>3 DEF Variables
  <2>2. AmbientKey(flags, other) = AmbientKey(flags, env) /\ Directory(flags, other) = Directory(flags, env)
    BY <2>1 DEF AmbientKey, Directory
  <2>3. CASE flags.wallet # None \/ flags.profile # None
    <3>1. Scope(flags, other, settings) = Scope(flags, env, settings)
      BY <2>1, <2>3 DEF Scope, FlagOr, Ambient
    <3>2. v \in Ignored(flags, env, settings)
      BY <1>3, <2>3, IgnoredParts
    <3> QED BY <1>s, <2>2, <3>1, <3>2 DEF Using
  <2>4. CASE flags.wallet = None /\ flags.profile = None
    <3>1. Scope(flags, other, settings).wallet.value # Scope(flags, env, settings).wallet.value
      BY <1>3, <2>1, <2>4 DEF Scope, FlagOr, Ambient, Sourced
    <3> QED BY <1>3, <2>4, <3>1, IgnoredParts DEF Using
  <2> QED BY <2>3, <2>4
<1>4. CASE v = "dir"
  <2>1. /\ other.dir = None /\ other.org = env.org /\ other.env = env.env
        /\ other.wallet = env.wallet /\ other.key = env.key
    BY <1>v, <1>4 DEF Variables
  <2>2. AmbientKey(flags, other) = AmbientKey(flags, env)
        /\ Scope(flags, other, settings) = Scope(flags, env, settings)
    BY <2>1 DEF AmbientKey, Scope, Ambient
  <2>3. Directory(flags, other) # Directory(flags, env) <=> flags.dir = None
    <3>1. CASE flags.dir # None
      BY <3>1 DEF Directory
    <3>2. CASE flags.dir = None
      <4>1. Directory(flags, env).source = "environment"
        BY <1>4, <3>2 DEF Directory, Sourced
      <4>2. Directory(flags, other).source \in {"default", "unset"}
        BY <2>1, <3>2 DEF Directory, Sourced
      <4> QED BY <3>2, <4>1, <4>2
    <3> QED BY <3>1, <3>2
  <2>4. v \in Ignored(flags, env, settings) <=> flags.dir # None
    BY <1>4, IgnoredParts
  <2> QED BY <1>s, <2>2, <2>3, <2>4 DEF Using
<1>5. CASE v = "key"
  <2>1. /\ other.key = None /\ other.org = env.org /\ other.env = env.env
        /\ other.wallet = env.wallet /\ other.dir = env.dir
    BY <1>v, <1>5 DEF Variables
  <2>2. Directory(flags, other) = Directory(flags, env)
        /\ Scope(flags, other, settings) = Scope(flags, env, settings)
    BY <2>1 DEF Directory, Scope, Ambient
  <2>3. CASE flags.profile # None \/ flags.account # None
    BY <1>5, <1>s, <2>1, <2>2, <2>3, IgnoredParts DEF Using, AmbientKey
  <2>4. CASE flags.profile = None /\ flags.account = None
    <3> DEFINE s == Scope(flags, env, settings)
    <3>1. AmbientKey(flags, env) = env.key /\ env.key # None /\ AmbientKey(flags, other) = None
      BY <1>5, <2>1, <2>4 DEF AmbientKey
    <3>2. Resolved(flags, other, s, settings).key = None
      BY <3>1 DEF Resolved, Selected
    <3>3. Resolved(flags, other, s, settings).error # "empty_api_key"
      BY <3>1 DEF Resolved, Selected, SelectAccount, Ok
    <3>4. Resolved(flags, env, s, settings).key = env.key \/ Resolved(flags, env, s, settings).error = "empty_api_key"
      BY <3>1 DEF Resolved, Selected, Ok
    <3>5. Using(flags, other, settings).credential # Using(flags, env, settings).credential
      BY <2>2, <3>1, <3>2, <3>3, <3>4 DEF Using
    <3> QED BY <1>5, <2>4, <3>5, IgnoredParts
  <2> QED BY <2>3, <2>4
<1> QED BY <1>1, <1>2, <1>3, <1>4, <1>5 DEF Variables

-----------------------------------------------------------------------------
(* The inductive invariant *)

\* Which commands come to which part of the preparation.
Staged ==
    /\ given \in Commands
    /\ pc = "price" => given.kind = "convert"
    /\ pc \in {"pick", "ask", "stop", "local"} => given.kind # "convert"
    /\ pc = "local" => given.kind # "api"
    /\ pc \in {"shortlist", "currency", "build", "execute"} => given.kind = "api"
    /\ pc \in {"ask", "stop"} => given.canAsk
    /\ pc = "start" => contacts = <<>>

\* The scope in use is the stated one, with what a person picked of what it lacked.  Only a login
\* picks an organization or an environment.
Steady ==
    /\ Opened =>
         /\ scope.org # Stated.org.value => Stated.org.value = None /\ login /\ OwnIsLogin
         /\ scope.envs # Stated.envs.value => Stated.envs.value = <<>> /\ login /\ OwnIsLogin
         /\ scope.wallet # Stated.wallet.value => Stated.wallet.value = None /\ "wallet" \in questions
         /\ login => Own.error = Ok
         /\ exchanged => login /\ (scope.org # None \/ "org" \notin Needs)
    /\ ~Opened => scope = NoScope /\ ~login /\ ~exchanged
    /\ pc \notin {"start", "ended"} /\ given.kind # "convert" => Opened
    /\ scope.envs \in Seq(ToSet(scope.envs))

\* Each use of a credential is of the one that is selected, for the organization in use.
OfOwn(c) ==
    /\ Opened /\ Own.error = Ok /\ c.where \in {"auth", "api"}
    /\ c.key = Own.key /\ c.name = Own.name /\ c.org \in {None, scope.org}
    /\ c.where = "api" /\ OwnIsLogin => c.org # None

\* A checkout's token and the price service, which no account is used for.
OfNoAccount(c) ==
    /\ c.name = None /\ c.org = None
    /\ \/ c.where = "api" /\ Operation.auth = "checkout"
       \/ c.where = "price" /\ given.kind = "convert"

Accounted == contacts \in Seq(Contacts) /\ \A c \in Contacts : OfOwn(c) \/ OfNoAccount(c)

\* A request is built of the scope in use, without a mistake.
IsBuilt ==
    /\ given.kind = "api" /\ Opened /\ BuildError = Fine
    /\ request = [path |-> Path(Operation, target, scope),
                  query |-> Query(Operation, given.filters, given.overrides, scope),
                  body |-> Body.body,
                  consequential |-> HasBody /\ IsConsequential(Operation, Body.body)]

Built ==
    /\ pc \notin {"execute", "ended"} => request = None
    /\ pc = "execute" \/ request # None => IsBuilt

\* The output file is reserved before the request is built.
Holding ==
    /\ reserved => ReservesFile
    /\ pc \in {"price", "build", "execute", "local"} /\ ReservesFile => reserved
    /\ result.kind = "sent" => given.kind = "api" /\ ~Describes /\ (ReservesFile => reserved)
    /\ result.kind = "not executed" =>
         /\ given.kind = "api" /\ Describes
         /\ ~given.showSecrets => result.detail = (IF request.body = None THEN {} ELSE Shown(request.body))

PInv == TypeOK /\ Staged /\ Steady /\ Accounted /\ Built /\ Holding /\ LocalMistakesAskNothing

-----------------------------------------------------------------------------
(* What steps have in common *)

\* A command that ends says how.
LEMMA EndsSay ==
    ASSUME NEW kind, NEW detail, Ends_(kind, detail)
    PROVE  pc' = "ended" /\ result'.kind = kind /\ result'.detail = detail
BY DEF Ends_

\* The command line never changes, nor what is computed of it.
LEMMA GivenStays ==
    given' = given =>
      /\ Settings' = Settings /\ Operation' = Operation /\ Stated' = Stated /\ Own' = Own
      /\ OwnIsLogin' = OwnIsLogin /\ IsFriendlyPayment' = IsFriendlyPayment
      /\ Describes' = Describes /\ ReservesFile' = ReservesFile
      /\ (pc # "start" /\ pc' # "start" => Opened' = Opened)
BY DEF Settings, Operation, Stated, Own, OwnIsLogin, IsFriendlyPayment, Describes, IsChange, ReservesFile,
       Opened, IsOpen

\* What a command needs is told of its line and of the wallet it acts on.
LEMMA NeedsStay == given' = given /\ target' = target => Needs' = Needs
BY DEF Needs, LocalNeeds, Operation, IsFriendlyPayment

\* The credential in use is the one that the stated scope selects.
LEMMA CredentialIsOwn ==
    ASSUME Steady, Opened
    PROVE  Credential = Own
<1>1. Effective.account.value = Stated.account.value
  BY EffectiveParts
<1>2. CASE scope.org = Stated.org.value /\ scope.envs = Stated.envs.value
  BY <1>1, <1>2, EffectiveParts, ResolvedBy DEF Credential, Own
<1>3. CASE OwnIsLogin /\ Own.error = Ok
  BY <1>1, <1>3, LoginByAccount DEF Credential, Own, OwnIsLogin
<1> QED BY <1>2, <1>3 DEF Steady

\* A contact more.
LEMMA ContactAdds ==
    ASSUME contacts \in Seq(Contacts), NEW e, contacts' = Append(contacts, e)
    PROVE  contacts' \in Seq(Contacts') /\ Contacts' = Contacts \cup {e}
<1> DEFINE n == Len(contacts)
<1>1. n \in Nat /\ DOMAIN contacts = 1..n
  OBVIOUS
<1>2. /\ DOMAIN contacts' = 1..(n + 1) /\ contacts'[n + 1] = e
      /\ \A i \in 1..n : contacts'[i] = contacts[i]
  BY <1>1
<1>3. Contacts' = Contacts \cup {e}
  <2>1. ASSUME NEW c \in Contacts' PROVE c \in Contacts \cup {e}
    <3>1. PICK i \in 1..(n + 1) : c = contacts'[i]
      BY <1>2, <2>1 DEF Contacts
    <3>2. CASE i = n + 1
      BY <1>2, <3>1, <3>2
    <3>3. CASE i \in 1..n
      BY <1>1, <1>2, <3>1, <3>3 DEF Contacts
    <3> QED BY <1>1, <3>2, <3>3
  <2>2. ASSUME NEW c \in Contacts PROVE c \in Contacts'
    BY <1>1, <1>2 DEF Contacts
  <2>3. e \in Contacts'
    BY <1>1, <1>2 DEF Contacts
  <2> QED BY <2>1, <2>2, <2>3
<1>4. contacts' \in Seq(Contacts \cup {e})
  BY <1>1
<1> QED BY <1>3, <1>4

\* A use of the credential is a contact more.
LEMMA UsedAdds ==
    ASSUME contacts \in Seq(Contacts), NEW where, NEW org, Used(where, org)
    PROVE  /\ contacts' \in Seq(Contacts')
           /\ Contacts' = Contacts \cup
                {[where |-> where, org |-> org, key |-> Credential.key, name |-> Credential.name]}
BY ContactAdds DEF Used

\* A step that adds no contact, and lets nothing be picked, after the settings were opened.
LEMMA QuietKeeps ==
    ASSUME PInv, UNCHANGED <<given, scope, target, questions, contacts, login, exchanged>>,
           pc \notin {"start", "ended"}, pc' # "start"
    PROVE  Steady' /\ Accounted' /\ LocalMistakesAskNothing'
<1> USE GivenStays DEF PInv
<1>0. Opened' = Opened /\ Stated' = Stated /\ Own' = Own /\ OwnIsLogin' = OwnIsLogin /\ Operation' = Operation
  OBVIOUS
<1>1. Needs' = Needs
  BY DEF Needs, LocalNeeds, Operation, IsFriendlyPayment
<1>2. Steady'
  BY <1>0, <1>1 DEF Steady
<1>3. Contacts' = Contacts
  BY DEF Contacts
<1>4. Accounted'
  BY <1>0, <1>3 DEF Accounted, OfOwn, OfNoAccount
<1>5. LocalMistakesAskNothing'
  BY DEF LocalMistakesAskNothing
<1> QED BY <1>2, <1>4, <1>5

\* A step before anything is reserved, or one that ends the command without an answer.
LEMMA HoldingKeeps ==
    ASSUME PInv, given' = given, reserved' = reserved,
           pc' \notin {"price", "build", "execute", "local"},
           result'.kind \notin {"sent", "not executed"}
    PROVE  Holding'
BY GivenStays DEF PInv, Holding

\* A step before a request is built, which builds none.
LEMMA UnbuiltKeeps ==
    ASSUME PInv, request' = request, pc' # "execute", pc \notin {"execute", "ended"}
    PROVE  Built'
BY DEF PInv, Built

\* A step after it was built.
LEMMA BuiltKeeps ==
    ASSUME PInv, UNCHANGED <<given, scope, target, currency, request>>, pc = "execute", pc' # "start"
    PROVE  IsBuilt' 
<1>1. IsBuilt /\ pc # "start"
  BY DEF PInv, Built
<1>2. Opened' = Opened
  BY <1>1, GivenStays
<1> QED BY <1>1, <1>2 DEF IsBuilt, BuildError, Body, HasBody, Operation, PaymentFlags, IsChange, InvoiceFlagsError

\* A use of the credential for the organization in use, before and after which nothing else of it
\* changes than an organization that there was none of.
LEMMA UseKeeps ==
    ASSUME PInv, given' = given, pc \notin {"start", "ended"}, pc' # "start",
           Opened, Own.error = Ok, NEW where \in {"auth", "api"}, NEW org, Used(where, org),
           org = None \/ org = scope'.org, scope.org = None \/ scope'.org = scope.org,
           where = "api" /\ OwnIsLogin => org # None
    PROVE  Accounted'
<1>0. PICK c0 : c0 = [where |-> where, org |-> org, key |-> Own.key, name |-> Own.name]
  OBVIOUS
<1>1. /\ Opened' = Opened /\ Own' = Own /\ OwnIsLogin' = OwnIsLogin /\ Operation' = Operation
  BY GivenStays
<1>2. Credential = Own
  BY CredentialIsOwn DEF PInv
<1>3. contacts' \in Seq(Contacts') /\ Contacts' = Contacts \cup {c0}
  BY <1>0, <1>2, UsedAdds DEF PInv, Accounted
<1>4. ASSUME NEW c \in Contacts PROVE OfOwn(c)' \/ OfNoAccount(c)'
  <2>1. CASE OfOwn(c)
    BY <1>1, <2>1 DEF OfOwn
  <2>2. CASE OfNoAccount(c)
    BY <1>1, <2>2 DEF OfNoAccount
  <2> QED BY <2>1, <2>2 DEF PInv, Accounted
<1>5. OfOwn(c0)'
  BY <1>0, <1>1 DEF OfOwn
<1>6. \A c \in Contacts' : OfOwn(c)' \/ OfNoAccount(c)'
  BY <1>3, <1>4, <1>5
<1> QED BY <1>3, <1>6 DEF Accounted

\* A contact that no account is used for.
LEMMA StrangerKeeps ==
    ASSUME PInv, UNCHANGED <<given, scope>>, pc \notin {"start", "ended"}, pc' # "start",
           NEW c0, contacts' = Append(contacts, c0), OfNoAccount(c0)
    PROVE  Accounted'
<1>1. /\ Opened' = Opened /\ Own' = Own /\ OwnIsLogin' = OwnIsLogin /\ Operation' = Operation
  BY GivenStays
<1>3. contacts' \in Seq(Contacts') /\ Contacts' = Contacts \cup {c0}
  BY ContactAdds DEF PInv, Accounted
<1>4. ASSUME NEW c \in Contacts PROVE OfOwn(c)' \/ OfNoAccount(c)'
  <2>1. CASE OfOwn(c)
    BY <1>1, <2>1 DEF OfOwn
  <2>2. CASE OfNoAccount(c)
    BY <1>1, <2>2 DEF OfNoAccount
  <2> QED BY <2>1, <2>2 DEF PInv, Accounted
<1>5. OfNoAccount(c0)'
  BY <1>1 DEF OfNoAccount
<1> QED BY <1>3, <1>4, <1>5 DEF Accounted

\* The types after a step that warns of nothing.
LEMMA TypeKeeps ==
    ASSUME TypeOK, Accounted', warned' = warned, DOMAIN scope' = DOMAIN scope,
           currency' \in {None, "btc", "usd"}, questions' \subseteq {"org", "env", "wallet"},
           login' \in BOOLEAN, exchanged' \in BOOLEAN, reserved' \in BOOLEAN,
           pc # "ended",
           \/ result' = result /\ pc' \in {"pick", "ask", "stop", "shortlist", "currency", "reserve", "build",
                                           "execute", "price", "local"}
           \/ result'.kind # "none" /\ pc' = "ended"
    PROVE  TypeOK'
<1>1. \A i \in DOMAIN contacts' : contacts'[i].where \in {"auth", "api", "price"}
  BY DEF Accounted, OfOwn, OfNoAccount, Contacts
<1>2. pc' = "ended" <=> result'.kind # "none"
  BY DEF TypeOK
<1>3. pc' \in {"start", "pick", "ask", "stop", "shortlist", "currency", "reserve", "build", "execute",
               "price", "local", "ended"}
  OBVIOUS
<1>4. warned' \subseteq Variables /\ DOMAIN scope' = {"org", "envs", "wallet", "webhook"}
  BY DEF TypeOK
<1> QED BY <1>1, <1>2, <1>3, <1>4 DEF TypeOK

-----------------------------------------------------------------------------
(* The steps that use no credential and pick nothing *)

\* The environments that a command line states are a sequence.
LEMMA StatedEnvs ==
    given \in Commands => Stated.envs.value \in Seq(ToSet(Stated.envs.value))
<1> SUFFICES ASSUME given \in Commands PROVE Stated.envs.value \in Seq(ToSet(Stated.envs.value))
  OBVIOUS
<1>1. <<>> \in Seq(ToSet(<<>>))
  OBVIOUS
<1>2. given.flags.envs \in Seq(ToSet(given.flags.envs))
  BY CommandsAreLines
<1>3. ASSUME NEW e PROVE <<e>> \in Seq(ToSet(<<e>>))
  BY DEF ToSet
<1> QED BY <1>1, <1>2, <1>3 DEF Stated, Scope

\* A command starts with nothing in use, nothing read and nothing built.
LEMMA InitKeeps == Init => PInv
<1> SUFFICES ASSUME Init PROVE PInv
  OBVIOUS
<1>1. /\ given \in Commands /\ scope = NoScope /\ currency = given.payment.currency
      /\ pc = "start" /\ result.kind = "none" /\ warned = {} /\ questions = {} /\ contacts = <<>>
      /\ login = FALSE /\ exchanged = FALSE /\ reserved = FALSE /\ request = None
  BY DEF Init
<1>2. contacts \in Seq(Contacts) /\ Contacts = {}
  BY <1>1 DEF Contacts
<1>3. DOMAIN scope = {"org", "envs", "wallet", "webhook"}
  BY <1>1 DEF NoScope
<1>4. currency \in {None, "btc", "usd"}
  BY <1>1, CommandsAreLines
<1>5. \A i \in DOMAIN contacts : contacts[i].where \in {"auth", "api", "price"}
  BY <1>1
<1>6. TypeOK
  BY <1>1, <1>3, <1>4, <1>5 DEF TypeOK
<1>7. Staged /\ Holding /\ Accounted /\ LocalMistakesAskNothing
  BY <1>1, <1>2 DEF Staged, Holding, Accounted, LocalMistakesAskNothing
<1>9. scope.envs \in Seq(ToSet(scope.envs))
  BY <1>1 DEF NoScope
<1>8. Steady /\ Built
  BY <1>1, <1>9 DEF Steady, Built, Opened, IsOpen
<1> QED BY <1>6, <1>7, <1>8 DEF PInv

\* A command that needs no settings goes on without a scope.
LEMMA SkipOpenKeeps == PInv /\ SkipOpen => PInv'
<1> SUFFICES ASSUME PInv, SkipOpen PROVE PInv'
  OBVIOUS
<1> USE GivenStays DEF SkipOpen
<1>1. TypeOK' /\ Staged' /\ Holding' /\ LocalMistakesAskNothing'
  BY DEF PInv, TypeOK, Staged, Holding, LocalMistakesAskNothing
<1>2. ~Opened /\ ~Opened'
  BY DEF Opened, IsOpen
<1>3. Steady' /\ Accounted'
  BY <1>2 DEF PInv, Staged, Steady, Accounted, Contacts
<1>4. Built'
  BY UnbuiltKeeps
<1> QED BY <1>1, <1>3, <1>4 DEF PInv

\* Opening the settings states the scope, or ends the command.
LEMMA OpenKeeps == PInv /\ Open => PInv'
<1> SUFFICES ASSUME PInv, Open PROVE PInv'
  OBVIOUS
<1> USE GivenStays
<1>0. /\ pc = "start" /\ given.kind # "convert" /\ given' = given /\ contacts' = contacts /\ contacts = <<>>
      /\ questions' = questions /\ login' = login /\ exchanged' = exchanged /\ target' = target
      /\ request' = request /\ currency' = currency /\ reserved' = reserved
  BY DEF Open, PInv, Staged
<1>1. ~Opened /\ scope = NoScope /\ ~login /\ ~exchanged
  BY <1>0 DEF PInv, Steady, Opened, IsOpen
<1> DEFINE relative == Directory(given.flags, given.env).value \in Relative
           error == ScopeError(given.flags, given.env, Settings)
<1>2. \/ /\ (relative \/ error # Ok) /\ pc' = "ended" /\ result'.kind = "usage" /\ UNCHANGED <<scope, warned>>
      \/ /\ ~relative /\ error = Ok /\ pc' = "pick" /\ result' = result
         /\ scope' = [org |-> Stated.org.value, envs |-> Stated.envs.value,
                      wallet |-> Stated.wallet.value, webhook |-> given.webhook]
         /\ warned' = Warned(given.flags, given.env, Settings, given.kind = "create_profile")
  <2>1. CASE relative
    <3>1. "relative directory" # Ok
      BY DEF Ok
    <3>2. Ends_("usage", "relative directory") /\ UNCHANGED <<scope, warned>>
      BY <2>1, <3>1 DEF Open
    <3> QED BY <2>1, <3>2 DEF Ends_
  <2>2. CASE ~relative
    BY <1>0, <2>2 DEF Open, Ends_, Stated
  <2> QED BY <2>1, <2>2
<1>3. Opened' <=> ~relative /\ error = Ok
  BY <1>0, <1>2 DEF Opened, IsOpen, Ok
<1>4. Warned(given.flags, given.env, Settings, given.kind = "create_profile") \subseteq Variables
  BY DEF Warned, Ignored, Variables
<1>5. TypeOK'
  BY <1>0, <1>2, <1>4 DEF PInv, TypeOK
<1>6. Staged'
  BY <1>0, <1>2 DEF PInv, Staged
<1>11. Holding'
  BY <1>0, <1>2, HoldingKeeps DEF PInv, TypeOK
<1>12. scope'.envs \in Seq(ToSet(scope'.envs))
  BY <1>0, <1>2, StatedEnvs DEF PInv, Staged, Steady
<1>7. Steady'
  BY <1>0, <1>1, <1>2, <1>3, <1>12 DEF Steady
<1>8. Contacts' = {} /\ contacts' \in Seq(Contacts')
  BY <1>0 DEF Contacts
<1>9. Accounted' /\ LocalMistakesAskNothing'
  BY <1>0, <1>8 DEF Accounted, LocalMistakesAskNothing
<1>10. Built'
  BY <1>0, <1>2, UnbuiltKeeps
<1> QED BY <1>5, <1>6, <1>7, <1>9, <1>10, <1>11 DEF PInv

\* What has to be asked for is asked for only of one who can answer.
LEMMA PickKeeps == PInv /\ Pick => PInv'
<1> SUFFICES ASSUME PInv, Pick PROVE PInv'
  OBVIOUS
<1>1. /\ pc = "pick" /\ pc' \in {"ended", "shortlist", "reserve", "ask"}
      /\ pc' = "shortlist" => given.kind = "api"
      /\ pc' = "ask" => given.canAsk
      /\ IF pc' = "ended" THEN result'.kind = "usage" ELSE result' = result
  <2>1. (Onward = "shortlist" /\ given.kind = "api") \/ Onward = "reserve"
    BY DEF Onward
  <2>2. \/ pc' = "ended" /\ result'.kind = "usage"
        \/ pc' = Onward /\ result' = result
        \/ pc' = "ask" /\ result' = result /\ given.canAsk
    BY EndsSay DEF Pick
  <2>3. pc = "pick"
    BY DEF Pick
  <2> QED BY <2>1, <2>2, <2>3
<1>2. UNCHANGED <<given, scope, target, currency, warned, questions, contacts, login, exchanged, reserved, request>>
  BY DEF Pick
<1>3. Steady' /\ Accounted' /\ LocalMistakesAskNothing'
  BY <1>1, <1>2, QuietKeeps
<1>4. TypeOK' /\ Staged' /\ Holding'
  BY <1>1, <1>2, GivenStays DEF PInv, TypeOK, Staged, Holding
<1>5. Built'
  BY <1>1, <1>2, UnbuiltKeeps
<1> QED BY <1>3, <1>4, <1>5 DEF PInv

\* When everything was asked for, the command goes on with what was picked.
LEMMA StopAskingKeeps == PInv /\ StopAsking => PInv'
<1> SUFFICES ASSUME PInv, StopAsking PROVE PInv'
  OBVIOUS
<1>1. /\ pc = "stop" /\ pc' \in {"ended", "shortlist", "reserve"}
      /\ pc' = "shortlist" => given.kind = "api"
      /\ IF pc' = "ended" THEN result'.kind = "usage" ELSE result' = result
  <2>1. (Onward = "shortlist" /\ given.kind = "api") \/ Onward = "reserve"
    BY DEF Onward
  <2>2. \/ pc' = "ended" /\ result'.kind = "usage"
        \/ pc' = Onward /\ result' = result
    BY EndsSay DEF StopAsking
  <2>3. pc = "stop"
    BY DEF StopAsking
  <2> QED BY <2>1, <2>2, <2>3
<1>2. UNCHANGED <<given, scope, target, currency, warned, questions, contacts, login, exchanged, reserved, request>>
  BY DEF StopAsking
<1>3. Steady' /\ Accounted' /\ LocalMistakesAskNothing'
  BY <1>1, <1>2, QuietKeeps
<1>4. TypeOK' /\ Staged' /\ Holding'
  BY <1>1, <1>2, GivenStays DEF PInv, TypeOK, Staged, Holding
<1>5. Built'
  BY <1>1, <1>2, UnbuiltKeeps
<1> QED BY <1>3, <1>4, <1>5 DEF PInv

\* A shortlist or a currency that is not wanted is passed over.
LEMMA PassingKeeps == PInv /\ (NoShortlist \/ NoFill) => PInv'
<1> SUFFICES ASSUME PInv, NoShortlist \/ NoFill PROVE PInv'
  OBVIOUS
<1>1. /\ pc \in {"shortlist", "currency"} /\ pc' \in {"currency", "reserve"} /\ given.kind = "api"
      /\ UNCHANGED <<given, scope, target, currency, warned, questions, contacts, login, exchanged, reserved, request, result>>
  BY DEF NoShortlist, NoFill, PInv, Staged
<1>3. Steady' /\ Accounted' /\ LocalMistakesAskNothing'
  BY <1>1, QuietKeeps
<1>4. TypeOK' /\ Staged' /\ Holding'
  BY <1>1, GivenStays DEF PInv, TypeOK, Staged, Holding
<1>5. Built'
  BY <1>1, UnbuiltKeeps
<1> QED BY <1>3, <1>4, <1>5 DEF PInv

\* The output file is reserved before the request is built, unless it is only described.
LEMMA ReserveKeeps == PInv /\ Reserve => PInv'
<1> SUFFICES ASSUME PInv, Reserve PROVE PInv'
  OBVIOUS
<1>1. /\ pc = "reserve" /\ pc' \in {"ended", "price", "build", "local"}
      /\ pc' = "price" => given.kind = "convert"
      /\ pc' = "build" => given.kind = "api"
      /\ pc' = "local" => given.kind \notin {"api", "convert"}
      /\ IF pc' = "ended" THEN result'.kind = "output" /\ reserved' = reserved
         ELSE result' = result /\ reserved' \in BOOLEAN
      /\ reserved' = reserved \/ ReservesFile
      /\ pc' # "ended" /\ ReservesFile => reserved' = TRUE
  <2>1. \/ Ready = "price" /\ given.kind = "convert"
        \/ Ready = "build" /\ given.kind = "api"
        \/ Ready = "local" /\ given.kind \notin {"api", "convert"}
    BY DEF Ready
  <2>2. \/ ReservesFile /\ reserved' = TRUE /\ pc' = Ready /\ result' = result
        \/ pc' = "ended" /\ result'.kind = "output" /\ reserved' = reserved
        \/ ~ReservesFile /\ pc' = Ready /\ reserved' = reserved /\ result' = result
    BY EndsSay DEF Reserve
  <2>3. reserved \in BOOLEAN
    BY DEF PInv, TypeOK
  <2>4. pc = "reserve"
    BY DEF Reserve
  <2> QED BY <2>1, <2>2, <2>3, <2>4
<1>2. UNCHANGED <<given, scope, target, currency, warned, questions, contacts, login, exchanged, request>>
  BY DEF Reserve
<1>3. Steady' /\ Accounted' /\ LocalMistakesAskNothing'
  BY <1>1, <1>2, QuietKeeps
<1>4. TypeOK'
  BY <1>1, <1>2 DEF PInv, TypeOK
<1>5. Staged'
  BY <1>1, <1>2 DEF PInv, Staged
<1>8. result'.kind \notin {"sent", "not executed"}
  BY <1>1 DEF PInv, TypeOK
<1>9. ReservesFile' = ReservesFile /\ (reserved => ReservesFile)
  BY <1>2, GivenStays DEF PInv, Holding
<1>10. reserved' => ReservesFile
  BY <1>1, <1>9
<1>11. pc' # "ended" /\ ReservesFile => reserved'
  BY <1>1
<1>12. pc' \in {"price", "build", "execute", "local"} => pc' # "ended"
  OBVIOUS
<1>7. Holding'
  BY <1>8, <1>9, <1>10, <1>11, <1>12 DEF Holding
<1>6. Built'
  BY <1>1, <1>2, UnbuiltKeeps
<1> QED BY <1>3, <1>4, <1>5, <1>6, <1>7 DEF PInv

\* A dry run ends with the description of what was built.
LEMMA DescribeKeeps == PInv /\ Describe => PInv'
<1> SUFFICES ASSUME PInv, Describe PROVE PInv'
  OBVIOUS
<1>1. /\ pc = "execute" /\ pc' = "ended" /\ Describes /\ result'.kind = "not executed"
      /\ UNCHANGED <<given, scope, target, currency, warned, questions, contacts, login, exchanged, reserved, request>>
      /\ ~given.showSecrets => result'.detail = (IF request.body = None THEN {} ELSE Shown(request.body))
  BY EndsSay DEF Describe
<1>2. Steady' /\ Accounted' /\ LocalMistakesAskNothing'
  BY <1>1, QuietKeeps
<1>3. TypeOK'
  BY <1>1 DEF PInv, TypeOK
<1>4. Staged'
  BY <1>1 DEF PInv, Staged
<1>5. IsBuilt /\ IsBuilt'
  BY <1>1, BuiltKeeps DEF PInv, Built
<1>6. Built'
  BY <1>1, <1>5 DEF Built
<1>7. given' = given /\ request' = request
  BY <1>1
<1>8. Shown(request.body)' = Shown(request.body)
  BY <1>7 DEF Shown, Values, IsShown, ShownFields, Has
<1>9. Holding'
  BY <1>1, <1>5, <1>8, GivenStays DEF PInv, Holding, IsBuilt
<1> QED BY <1>2, <1>3, <1>4, <1>6, <1>9 DEF PInv

\* A secret that would have no place to go ends the command before it is asked for.
LEMMA RefuseSecretKeeps == PInv /\ RefuseSecret => PInv'
<1> SUFFICES ASSUME PInv, RefuseSecret PROVE PInv'
  OBVIOUS
<1>1. /\ pc = "execute" /\ pc' = "ended" /\ result'.kind = "usage"
      /\ UNCHANGED <<given, scope, target, currency, warned, questions, contacts, login, exchanged, reserved, request>>
  BY EndsSay DEF RefuseSecret
<1>2. Steady' /\ Accounted' /\ LocalMistakesAskNothing'
  BY <1>1, QuietKeeps
<1>3. TypeOK' /\ Staged'
  BY <1>1 DEF PInv, TypeOK, Staged
<1>4. Built'
  BY <1>1, BuiltKeeps DEF Built
<1>5. Holding'
  BY <1>1, HoldingKeeps
<1> QED BY <1>2, <1>3, <1>4, <1>5 DEF PInv

\* A command of its own settings ends with what it made or reports.
LEMMA LocalEndsKeep == PInv /\ (CreateProfile \/ Report) => PInv'
<1> SUFFICES ASSUME PInv, CreateProfile \/ Report PROVE PInv'
  OBVIOUS
<1>1. /\ pc = "local" /\ pc' = "ended" /\ result'.kind \in {"usage", "profile", "context"}
      /\ UNCHANGED <<given, scope, target, currency, warned, questions, contacts, login, exchanged, reserved, request>>
  <2>1. CASE CreateProfile
    BY <2>1, EndsSay DEF CreateProfile
  <2>2. CASE Report
    BY <2>2, EndsSay DEF Report
  <2> QED BY <2>1, <2>2
<1>2. Steady' /\ Accounted' /\ LocalMistakesAskNothing'
  BY <1>1, QuietKeeps
<1>3. TypeOK' /\ Staged'
  BY <1>1 DEF PInv, TypeOK, Staged
<1>4. Built'
  BY <1>1, UnbuiltKeeps
<1>5. Holding'
  BY <1>1, HoldingKeeps
<1> QED BY <1>2, <1>3, <1>4, <1>5 DEF PInv

\* The request is built of the flags, the scope in use and the currency, or refused.
LEMMA BuildKeeps == PInv /\ Build => PInv'
<1> SUFFICES ASSUME PInv, Build PROVE PInv'
  OBVIOUS
<1>1. /\ pc = "build" /\ pc' \in {"ended", "execute"}
      /\ UNCHANGED <<given, scope, target, currency, warned, questions, contacts, login, exchanged, reserved>>
      /\ pc' = "ended" => result'.kind = "usage" /\ request' = request
      /\ pc' = "execute" =>
           /\ result' = result /\ BuildError = Fine
           /\ request' = [path |-> Path(Operation, target, scope),
                          query |-> Query(Operation, given.filters, given.overrides, scope),
                          body |-> Body.body,
                          consequential |-> HasBody /\ IsConsequential(Operation, Body.body)]
  <2>1. CASE BuildError # Fine
    BY <2>1, EndsSay DEF Build
  <2>2. CASE BuildError = Fine
    BY <2>2 DEF Build
  <2> QED BY <2>1, <2>2
<1>2. Steady' /\ Accounted' /\ LocalMistakesAskNothing'
  BY <1>1, QuietKeeps
<1>3. given.kind = "api" /\ result.kind = "none"
  BY <1>1 DEF PInv, Staged, TypeOK
<1>4. TypeOK' /\ Staged'
  BY <1>1, <1>3 DEF PInv, TypeOK, Staged
<1>5. Opened'
  BY <1>1, <1>3, GivenStays DEF PInv, Steady
<1>6. Built'
  <2>1. CASE pc' = "ended"
    BY <1>1, <2>1, UnbuiltKeeps
  <2>2. CASE pc' = "execute"
    BY <1>1, <1>3, <1>5, <2>2
       DEF Built, IsBuilt, BuildError, Body, HasBody, Operation, PaymentFlags, IsChange, InvoiceFlagsError
  <2> QED BY <1>1, <2>1, <2>2
<1>7. Holding'
  <2>1. result'.kind \notin {"sent", "not executed"}
    BY <1>1, <1>3
  <2>2. ReservesFile' = ReservesFile /\ (reserved <=> ReservesFile)
    BY <1>1, GivenStays DEF PInv, Holding
  <2> QED BY <1>1, <2>1, <2>2 DEF Holding
<1> QED BY <1>2, <1>4, <1>6, <1>7 DEF PInv

-----------------------------------------------------------------------------
(* The steps that use a credential *)

\* What the currency is that a payment is of changes nothing of its own checks.
LEMMA CheckedWithoutCurrency ==
    ASSUME given \in Commands
    PROVE  CheckPayment(PaymentFlags, given.alias) = CheckPayment(given.payment, given.alias)
<1> DEFINE p == given.payment
           q == PaymentFlags
<1>1. /\ q.invoice = p.invoice /\ q.address = p.address /\ q.kind = p.kind /\ q.amount = p.amount
      /\ q.unit = p.unit /\ q.maxFee = p.maxFee /\ q.feeUnit = p.feeUnit /\ q.expiration = p.expiration
      /\ q.description = p.description /\ q.metadata = p.metadata
  BY CommandsAreLines DEF PaymentFlags
<1>2. ReceiveError(q) = ReceiveError(p)
  BY <1>1 DEF ReceiveError
<1>3. SendError(q) = SendError(p)
  BY <1>1 DEF SendError
<1> HIDE DEF p, q
<1> QED BY <1>1, <1>2, <1>3 DEF CheckPayment, p, q

\* A conversion is for a price, and uses no credential.
LEMMA ConvertKeeps == PInv /\ Convert_ => PInv'
<1> SUFFICES ASSUME PInv, Convert_ PROVE PInv'
  OBVIOUS
<1> DEFINE c0 == [where |-> "price", org |-> None, key |-> None, name |-> None]
<1>1. /\ pc = "price" /\ pc' = "ended" /\ result'.kind \in {"usage", "api", "converted", "panicked"}
      /\ contacts' = contacts \/ contacts' = Append(contacts, c0)
      /\ UNCHANGED <<given, scope, target, currency, warned, questions, login, exchanged, reserved, request>>
  BY EndsSay DEF Convert_
<1>2. given.kind = "convert" /\ ~Opened
  BY <1>1 DEF PInv, Staged, Opened, IsOpen
<1>3. Accounted'
  <2>1. CASE contacts' = contacts
    BY <1>1, <2>1, GivenStays DEF PInv, Accounted, Contacts, OfOwn, OfNoAccount
  <2>2. CASE contacts' = Append(contacts, c0)
    <3>1. OfNoAccount(c0)
      BY <1>2 DEF OfNoAccount
    <3> QED BY <1>1, <2>2, <3>1, StrangerKeeps
  <2> QED BY <1>1, <2>1, <2>2
<1>4. Steady'
  BY <1>1, <1>2, GivenStays DEF PInv, Steady
<1>5. LocalMistakesAskNothing'
  BY <1>1, <1>2 DEF LocalMistakesAskNothing
<1>6. TypeOK'
  BY <1>1, <1>3, TypeKeeps DEF PInv, TypeOK
<1>7. Staged' /\ Holding' /\ Built'
  BY <1>1, HoldingKeeps, UnbuiltKeeps DEF PInv, Staged
<1> QED BY <1>3, <1>4, <1>5, <1>6, <1>7 DEF PInv

\* A picker resolves the credential by the scope as it is before anything is picked.
LEMMA AskCredentialKeeps == PInv /\ AskCredential => PInv'
<1> SUFFICES ASSUME PInv, AskCredential PROVE PInv'
  OBVIOUS
<1>1. /\ pc = "ask" /\ ~login /\ login' \in BOOLEAN
      /\ \/ pc' = "ask" /\ result' = result
         \/ pc' = "ended" /\ result'.kind = "auth"
      /\ UNCHANGED <<given, scope, target, currency, warned, questions, exchanged, reserved, request>>
  BY EndsSay DEF AskCredential, PInv, TypeOK
<1>2. \/ contacts' = contacts /\ login' = login
      \/ Credential.error = Ok /\ login' = TRUE /\ Used("auth", None)
  BY DEF AskCredential
<1>3. given.kind # "convert" /\ given.canAsk /\ Opened
  BY <1>1 DEF PInv, Staged, Steady
<1>4. Credential = Own
  BY <1>3, CredentialIsOwn DEF PInv
<1>5. Accounted'
  <2>1. CASE contacts' = contacts
    BY <1>1, <2>1, GivenStays DEF PInv, Accounted, Contacts, OfOwn, OfNoAccount
  <2>2. CASE Credential.error = Ok /\ Used("auth", None)
    BY <1>1, <1>3, <1>4, <2>2, UseKeeps
  <2> QED BY <1>2, <2>1, <2>2
<1>6. Steady'
  BY <1>1, <1>2, <1>3, <1>4, GivenStays, NeedsStay DEF PInv, Steady
<1>7. LocalMistakesAskNothing'
  BY <1>1, <1>3 DEF LocalMistakesAskNothing
<1>8. TypeOK'
  BY <1>1, <1>5, TypeKeeps DEF PInv, TypeOK
<1>9. Staged'
  BY <1>1 DEF PInv, Staged
<1>10. result'.kind \notin {"sent", "not executed"}
  BY <1>1 DEF PInv, TypeOK
<1>11. Holding' /\ Built'
  BY <1>1, <1>10, HoldingKeeps, UnbuiltKeeps
<1> QED BY <1>5, <1>6, <1>7, <1>8, <1>9, <1>11 DEF PInv

\* A login is exchanged for the organization that is in use.
LEMMA ExchangeKeeps == PInv /\ Exchange => PInv'
<1> SUFFICES ASSUME PInv, Exchange PROVE PInv'
  OBVIOUS
<1>1. /\ pc = "ask" /\ login /\ "org" \notin Missing
      /\ \/ pc' \in {"ask", "stop"} /\ result' = result
         \/ pc' = "ended" /\ result'.kind = "auth"
      /\ UNCHANGED <<given, scope, target, currency, warned, questions, login, reserved, request>>
  BY EndsSay DEF Exchange, PInv, TypeOK
<1>2. /\ contacts' = contacts \/ Used("auth", scope.org)
      /\ exchanged' = exchanged \/ exchanged' = TRUE
  BY DEF Exchange
<1>3. given.kind # "convert" /\ given.canAsk /\ Opened /\ Own.error = Ok
  BY <1>1 DEF PInv, Staged, Steady
<1>5. Accounted'
  <2>1. CASE contacts' = contacts
    BY <1>1, <2>1, GivenStays DEF PInv, Accounted, Contacts, OfOwn, OfNoAccount
  <2>2. CASE Used("auth", scope.org)
    BY <1>1, <1>3, <2>2, UseKeeps
  <2> QED BY <1>2, <2>1, <2>2
<1>6. Steady'
  <2>1. scope.org # None \/ "org" \notin Needs
    BY <1>1 DEF Missing
  <2> QED BY <1>1, <1>2, <1>3, <2>1, GivenStays, NeedsStay DEF PInv, Steady
<1>7. LocalMistakesAskNothing'
  BY <1>1, <1>3 DEF LocalMistakesAskNothing
<1>8. TypeOK'
  BY <1>1, <1>2, <1>5, TypeKeeps DEF PInv, TypeOK
<1>9. Staged'
  BY <1>1 DEF PInv, Staged
<1>10. result'.kind \notin {"sent", "not executed"}
  BY <1>1 DEF PInv, TypeOK
<1>11. Holding' /\ Built'
  BY <1>1, <1>10, HoldingKeeps, UnbuiltKeeps
<1> QED BY <1>5, <1>6, <1>7, <1>8, <1>9, <1>11 DEF PInv

\* What is picked takes the place of what there was none of.
LEMMA ChosenSays ==
    ASSUME NEW what \in {"org", "env", "wallet"}, NEW takeOnly \in BOOLEAN, Chosen(what, takeOnly)
    PROVE  /\ questions' = questions \/ questions' = questions \cup {what}
           /\ \/ pc' = "stop" /\ UNCHANGED <<scope, target>>
              \/ \E choice :
                   /\ choice # None /\ (~takeOnly => what \in questions')
                   /\ \/ what = "org" /\ scope' = [scope EXCEPT !.org = choice] /\ UNCHANGED <<target, pc>>
                      \/ what = "env" /\ scope' = [scope EXCEPT !.envs = <<choice>>] /\ UNCHANGED <<target, pc>>
                      \/ /\ what = "wallet" /\ pc' = Onward
                         /\ \/ NeedsTarget /\ target' = choice /\ UNCHANGED scope
                            \/ ~NeedsTarget /\ scope' = [scope EXCEPT !.wallet = choice] /\ UNCHANGED target
<1>1. PICK listed \in Listings[what] :
        IF listed = {} THEN questions' = questions /\ pc' = "stop" /\ UNCHANGED <<scope, target>>
        ELSE \E choice \in listed \cup {None} :
          /\ (takeOnly /\ Cardinality(listed) = 1) => choice # None
          /\ questions' = IF takeOnly /\ Cardinality(listed) = 1 THEN questions ELSE questions \cup {what}
          /\ IF choice = None THEN pc' = "stop" /\ UNCHANGED <<scope, target>>
             ELSE CASE what = "org" -> scope' = [scope EXCEPT !.org = choice] /\ UNCHANGED <<target, pc>>
                    [] what = "env" -> scope' = [scope EXCEPT !.envs = <<choice>>] /\ UNCHANGED <<target, pc>>
                    [] what = "wallet" /\ NeedsTarget -> target' = choice /\ pc' = Onward /\ UNCHANGED scope
                    [] OTHER -> scope' = [scope EXCEPT !.wallet = choice] /\ pc' = Onward /\ UNCHANGED target
  BY DEF Chosen
<1>2. CASE listed = {}
  BY <1>1, <1>2
<1>3. CASE listed # {}
  <2>1. PICK choice \in listed \cup {None} :
          /\ questions' = IF takeOnly /\ Cardinality(listed) = 1 THEN questions ELSE questions \cup {what}
          /\ IF choice = None THEN pc' = "stop" /\ UNCHANGED <<scope, target>>
             ELSE CASE what = "org" -> scope' = [scope EXCEPT !.org = choice] /\ UNCHANGED <<target, pc>>
                    [] what = "env" -> scope' = [scope EXCEPT !.envs = <<choice>>] /\ UNCHANGED <<target, pc>>
                    [] what = "wallet" /\ NeedsTarget -> target' = choice /\ pc' = Onward /\ UNCHANGED scope
                    [] OTHER -> scope' = [scope EXCEPT !.wallet = choice] /\ pc' = Onward /\ UNCHANGED target
    BY <1>1, <1>3
  <2>2. /\ questions' = questions \/ questions' = questions \cup {what}
        /\ ~takeOnly => what \in questions'
    BY <2>1
  <2>3. CASE choice = None
    BY <2>1, <2>2, <2>3
  <2>4. CASE choice # None
    <3>1. CASE what = "org"
      BY <2>1, <2>2, <2>4, <3>1
    <3>2. CASE what = "env"
      BY <2>1, <2>2, <2>4, <3>2
    <3>3. CASE what = "wallet" /\ NeedsTarget
      BY <2>1, <2>2, <2>4, <3>3
    <3>4. CASE what = "wallet" /\ ~NeedsTarget
      BY <2>1, <2>2, <2>4, <3>4
    <3> QED BY <3>1, <3>2, <3>3, <3>4
  <2> QED BY <2>3, <2>4
<1> QED BY <1>2, <1>3

\* An organization is asked of a login alone, where there was none.
LEMMA AskOrgKeeps == PInv /\ AskOrg => PInv'
<1> SUFFICES ASSUME PInv, AskOrg PROVE PInv'
  OBVIOUS
<1>1. /\ pc = "ask" /\ login /\ "org" \in Missing
      /\ UNCHANGED <<given, currency, warned, login, exchanged, reserved, request, result>>
      /\ \/ ~IsLogin /\ pc' = "stop" /\ UNCHANGED <<scope, target, questions, contacts>>
         \/ IsLogin /\ Used("auth", None) /\ Chosen("org", TRUE)
  BY DEF AskOrg
<1>2. given.kind # "convert" /\ given.canAsk /\ Opened /\ Own.error = Ok /\ scope.org = None
  BY <1>1 DEF PInv, Staged, Steady, Missing
<1>3. CASE ~IsLogin /\ pc' = "stop" /\ UNCHANGED <<scope, target, questions, contacts>>
  <2>1. Steady' /\ Accounted' /\ LocalMistakesAskNothing'
    BY <1>1, <1>3, QuietKeeps
  <2>2. TypeOK'
    BY <1>1, <1>3, <2>1, TypeKeeps DEF PInv, TypeOK
  <2>3. Staged' /\ Holding' /\ Built'
    BY <1>1, <1>3, HoldingKeeps, UnbuiltKeeps DEF PInv, TypeOK, Staged
  <2> QED BY <2>1, <2>2, <2>3 DEF PInv
<1>4. CASE IsLogin /\ Used("auth", None) /\ Chosen("org", TRUE)
  <2>1. /\ questions' = questions \/ questions' = questions \cup {"org"}
        /\ target' = target /\ pc' \in {"ask", "stop"}
        /\ \/ scope' = scope
           \/ \E choice : choice # None /\ scope' = [scope EXCEPT !.org = choice]
    BY <1>1, <1>4, ChosenSays
  <2>2. /\ DOMAIN scope' = DOMAIN scope /\ scope'.envs = scope.envs /\ scope'.wallet = scope.wallet
        /\ scope'.org = scope.org \/ scope'.org # None
    BY <2>1 DEF PInv, TypeOK
  <2>3. OwnIsLogin
    BY <1>2, <1>4, CredentialIsOwn DEF PInv, IsLogin, OwnIsLogin
  <2>4. Accounted'
    BY <1>1, <1>2, <1>4, <2>1, UseKeeps
  <2>5. Steady'
    BY <1>1, <1>2, <2>1, <2>2, <2>3, GivenStays, NeedsStay DEF PInv, Steady
  <2>6. LocalMistakesAskNothing'
    BY <1>1, <1>2 DEF LocalMistakesAskNothing
  <2>7. TypeOK'
    BY <1>1, <2>1, <2>2, <2>4, TypeKeeps DEF PInv, TypeOK
  <2>8. Staged'
    BY <1>1, <2>1 DEF PInv, Staged
  <2>9. Holding' /\ Built'
    BY <1>1, <2>1, HoldingKeeps, UnbuiltKeeps DEF PInv, TypeOK
  <2> QED BY <2>4, <2>5, <2>6, <2>7, <2>8, <2>9 DEF PInv
<1> QED BY <1>1, <1>3, <1>4

\* An environment is asked of a login alone, where there was none.
LEMMA AskEnvKeeps == PInv /\ AskEnv => PInv'
<1> SUFFICES ASSUME PInv, AskEnv PROVE PInv'
  OBVIOUS
<1>1. /\ pc = "ask" /\ exchanged /\ "env" \in Missing
      /\ UNCHANGED <<given, currency, warned, login, exchanged, reserved, request, result>>
      /\ \/ ~IsLogin /\ pc' = "stop" /\ UNCHANGED <<scope, target, questions, contacts>>
         \/ IsLogin /\ Used("auth", scope.org) /\ Chosen("env", TRUE)
  BY DEF AskEnv
<1>2. /\ given.kind # "convert" /\ given.canAsk /\ Opened /\ login
      /\ scope.org # None \/ "org" \notin Needs
  BY <1>1 DEF PInv, Staged, Steady
<1>5. Own.error = Ok /\ scope.envs = <<>>
  BY <1>1, <1>2 DEF PInv, Steady, Missing
<1>3. CASE ~IsLogin /\ pc' = "stop" /\ UNCHANGED <<scope, target, questions, contacts>>
  <2>1. Steady' /\ Accounted' /\ LocalMistakesAskNothing'
    BY <1>1, <1>3, QuietKeeps
  <2>2. TypeOK'
    BY <1>1, <1>3, <2>1, TypeKeeps DEF PInv, TypeOK
  <2>3. Staged' /\ Holding' /\ Built'
    BY <1>1, <1>3, HoldingKeeps, UnbuiltKeeps DEF PInv, TypeOK, Staged
  <2> QED BY <2>1, <2>2, <2>3 DEF PInv
<1>4. CASE IsLogin /\ Used("auth", scope.org) /\ Chosen("env", TRUE)
  <2>1. /\ questions' = questions \/ questions' = questions \cup {"env"}
        /\ target' = target /\ pc' \in {"ask", "stop"}
        /\ \/ scope' = scope
           \/ \E choice : scope' = [scope EXCEPT !.envs = <<choice>>]
    BY <1>1, <1>4, ChosenSays
  <2>2. /\ DOMAIN scope' = DOMAIN scope /\ scope'.org = scope.org /\ scope'.wallet = scope.wallet
    BY <2>1 DEF PInv, TypeOK
  <2>3. OwnIsLogin
    BY <1>2, <1>4, CredentialIsOwn DEF PInv, IsLogin, OwnIsLogin
  <2>4. Accounted'
    BY <1>1, <1>2, <1>4, <1>5, <2>1, <2>2, UseKeeps
  <2>10. scope'.envs \in Seq(ToSet(scope'.envs))
    <3>1. ASSUME NEW e PROVE <<e>> \in Seq(ToSet(<<e>>))
      BY DEF ToSet
    <3>2. CASE scope' = scope
      BY <3>2 DEF PInv, Steady
    <3>3. ASSUME NEW choice, scope' = [scope EXCEPT !.envs = <<choice>>]
          PROVE  scope'.envs \in Seq(ToSet(scope'.envs))
      <4>1. scope'.envs = <<choice>>
        BY <3>3 DEF PInv, TypeOK
      <4> QED BY <3>1, <4>1
    <3> QED BY <2>1, <3>2, <3>3
  <2>5. Steady'
    BY <1>1, <1>2, <1>5, <2>1, <2>2, <2>3, <2>10, GivenStays, NeedsStay DEF PInv, Steady
  <2>6. LocalMistakesAskNothing'
    BY <1>1, <1>2 DEF LocalMistakesAskNothing
  <2>7. TypeOK'
    BY <1>1, <2>1, <2>2, <2>4, TypeKeeps DEF PInv, TypeOK
  <2>8. Staged'
    BY <1>1, <2>1 DEF PInv, Staged
  <2>9. Holding' /\ Built'
    BY <1>1, <2>1, HoldingKeeps, UnbuiltKeeps DEF PInv, TypeOK
  <2> QED BY <2>4, <2>5, <2>6, <2>7, <2>8, <2>9 DEF PInv
<1> QED BY <1>1, <1>3, <1>4

\* A wallet is listed within an organization, so there is one by the time it is asked for.
LEMMA WalletNeedsOrg == given.kind # "convert" /\ "wallet" \in Needs => given.kind = "api" /\ "org" \in Needs
BY DEF Needs, LocalNeeds

\* A wallet is asked of any credential.
LEMMA AskWalletKeeps == PInv /\ AskWallet => PInv'
<1> SUFFICES ASSUME PInv, AskWallet PROVE PInv'
  OBVIOUS
<1>1. /\ pc = "ask" /\ exchanged
      /\ UNCHANGED <<given, currency, warned, login, exchanged, reserved, request>>
      /\ \/ pc' = "stop" /\ UNCHANGED <<scope, target, questions, contacts, result>>
         \/ pc' = "ended" /\ result'.kind = "usage" /\ UNCHANGED <<scope, target, questions, contacts>>
         \/ "wallet" \in Missing /\ Used("api", scope.org) /\ Chosen("wallet", FALSE) /\ result' = result
  BY EndsSay DEF AskWallet
<1>2. /\ given.kind # "convert" /\ given.canAsk /\ Opened /\ login
      /\ scope.org # None \/ "org" \notin Needs
  BY <1>1 DEF PInv, Staged, Steady
<1>3. CASE \/ pc' = "stop" /\ UNCHANGED <<scope, target, questions, contacts, result>>
           \/ pc' = "ended" /\ result'.kind = "usage" /\ UNCHANGED <<scope, target, questions, contacts>>
  <2>1. Steady' /\ Accounted' /\ LocalMistakesAskNothing'
    BY <1>1, <1>3, QuietKeeps
  <2>2. TypeOK'
    BY <1>1, <1>3, <2>1, TypeKeeps DEF PInv, TypeOK
  <2>3. result'.kind \notin {"sent", "not executed"}
    BY <1>1, <1>3 DEF PInv, TypeOK
  <2>4. Staged'
    BY <1>1, <1>2, <1>3 DEF PInv, Staged
  <2>5. Holding' /\ Built'
    BY <1>1, <1>3, <2>3, HoldingKeeps, UnbuiltKeeps
  <2> QED BY <2>1, <2>2, <2>4, <2>5 DEF PInv
<1>4. CASE "wallet" \in Missing /\ Used("api", scope.org) /\ Chosen("wallet", FALSE) /\ result' = result
  <2>1. /\ questions' = questions \/ questions' = questions \cup {"wallet"}
        /\ pc' \in {"stop", "shortlist", "reserve"} /\ (pc' = "shortlist" => given.kind = "api")
        /\ \/ scope' = scope
           \/ /\ "wallet" \in questions' /\ ~NeedsTarget
              /\ \E choice : scope' = [scope EXCEPT !.wallet = choice]
    <3>1. (Onward = "shortlist" /\ given.kind = "api") \/ Onward = "reserve"
      BY DEF Onward
    <3>2. /\ questions' = questions \/ questions' = questions \cup {"wallet"}
          /\ \/ pc' = "stop" /\ scope' = scope
             \/ /\ "wallet" \in questions' /\ pc' = Onward
                /\ \/ scope' = scope
                   \/ ~NeedsTarget /\ \E choice : scope' = [scope EXCEPT !.wallet = choice]
      BY <1>4, ChosenSays
    <3> QED BY <3>1, <3>2
  <2>2. /\ DOMAIN scope' = DOMAIN scope /\ scope'.org = scope.org /\ scope'.envs = scope.envs
        /\ scope'.wallet = scope.wallet \/ "wallet" \in questions'
    BY <2>1 DEF PInv, TypeOK
  <2>3. scope.org # None
    BY <1>2, <1>4, WalletNeedsOrg DEF Missing
  <2>4. Own.error = Ok
    BY <1>2 DEF PInv, Steady
  <2>5. Accounted'
    BY <1>1, <1>2, <1>4, <2>1, <2>2, <2>3, <2>4, UseKeeps
  <2>6. scope'.wallet # scope.wallet => scope.wallet = None
    BY <1>4, <2>1 DEF Missing
  <2>7. "wallet" \in questions => "wallet" \in questions'
    BY <2>1
  <2>8. Opened' = Opened /\ Stated' = Stated /\ Own' = Own /\ OwnIsLogin' = OwnIsLogin
    BY <1>1, <2>1, GivenStays
  <2>9. Steady'
    BY <1>1, <1>2, <2>1, <2>2, <2>3, <2>6, <2>7, <2>8 DEF PInv, Steady
  <2>10. LocalMistakesAskNothing'
    BY <1>1, <1>2 DEF LocalMistakesAskNothing
  <2>11. TypeOK'
    BY <1>1, <1>4, <2>1, <2>2, <2>5, TypeKeeps DEF PInv, TypeOK
  <2>12. Staged'
    BY <1>1, <1>2, <2>1 DEF PInv, Staged
  <2>13. Holding' /\ Built'
    BY <1>1, <1>4, <2>1, HoldingKeeps, UnbuiltKeeps DEF PInv, TypeOK
  <2> QED BY <2>5, <2>9, <2>10, <2>11, <2>12, <2>13 DEF PInv
<1> QED BY <1>1, <1>3, <1>4

\* What is authorized is the one credential, with an organization if it is a login.
LEMMA Authorized ==
    ASSUME Steady, Opened, AuthorizeError = Ok
    PROVE  Own.error = Ok /\ (OwnIsLogin => scope.org # None)
<1>1. Credential = Own
  BY CredentialIsOwn
<1>2. "org" # Ok
  BY DEF Ok
<1> QED BY <1>1, <1>2 DEF AuthorizeError, IsLogin, OwnIsLogin

\* A step that may use the credential for the organization in use, where it is authorized, and
\* changes nothing of the scope.
LEMMA AuthorizedKeeps ==
    ASSUME PInv, UNCHANGED <<given, scope, target, questions, login, exchanged>>,
           pc \notin {"start", "ended"}, pc' # "start", given.kind # "convert",
           \/ contacts' = contacts
           \/ AuthorizeError = Ok /\ Used("api", scope.org)
    PROVE  Steady' /\ Accounted'
<1>1. Opened
  BY DEF PInv, Steady
<1>2. Opened' = Opened /\ Stated' = Stated /\ Own' = Own /\ OwnIsLogin' = OwnIsLogin /\ Needs' = Needs
  BY GivenStays, NeedsStay
<1>3. Steady'
  BY <1>1, <1>2 DEF PInv, Steady
<1>6. given' = given /\ scope' = scope /\ Operation' = Operation
  BY GivenStays
<1>4. CASE contacts' = contacts
  <2>1. Contacts' = Contacts
    BY <1>4 DEF Contacts
  <2> QED BY <1>2, <1>3, <1>4, <1>6, <2>1 DEF PInv, Accounted, OfOwn, OfNoAccount
<1>5. CASE AuthorizeError = Ok /\ Used("api", scope.org)
  <2>1. Own.error = Ok /\ (OwnIsLogin => scope.org # None)
    BY <1>1, <1>5, Authorized DEF PInv
  <2>2. "api" \in {"auth", "api"} /\ scope.org = scope'.org /\ scope'.org = scope.org
    BY <1>6
  <2> QED BY <1>1, <1>3, <1>5, <1>6, <2>1, <2>2, UseKeeps DEF PInv
<1> QED BY <1>3, <1>4, <1>5

\* A shortlist reads the wallets once its flags are checked, and ends the command.
LEMMA ListWalletsKeeps == PInv /\ ListWallets => PInv'
<1> SUFFICES ASSUME PInv, ListWallets PROVE PInv'
  OBVIOUS
<1> DEFINE checked == CheckPayment(PaymentFlags, given.alias)
           invoice == Invoice(given.invoice.letters, given.invoice.amount)
<1>1. /\ pc = "shortlist" /\ pc' = "ended" /\ result'.kind \in {"usage", "auth", "shortlist", "api"}
      /\ UNCHANGED <<given, scope, target, currency, warned, questions, login, exchanged, reserved, request>>
      /\ \/ contacts' = contacts
         \/ checked = Fine /\ AuthorizeError = Ok /\ Used("api", scope.org)
  <2>1. pc = "shortlist" /\ UNCHANGED <<given, scope, target, currency, warned, questions, login, exchanged, reserved, request>>
    BY DEF ListWallets
  <2>2. CASE checked # Fine
    <3>1. Ends_("usage", checked) /\ contacts' = contacts
      BY <2>2 DEF ListWallets, Fine
    <3> QED BY <2>1, <3>1, EndsSay
  <2>3. CASE checked = Fine /\ invoice.network = None
    <3>1. Ends_("usage", "invoice") /\ contacts' = contacts
      BY <2>3 DEF ListWallets, Fine
    <3> QED BY <2>1, <3>1, EndsSay
  <2>4. CASE checked = Fine /\ invoice.network # None /\ AuthorizeError # Ok
    <3>1. Ends_("auth", AuthorizeError) /\ contacts' = contacts
      BY <2>4 DEF ListWallets
    <3> QED BY <2>1, <3>1, EndsSay
  <2>5. CASE checked = Fine /\ invoice.network # None /\ AuthorizeError = Ok
    <3>1. /\ Used("api", scope.org)
          /\ IF Len(scope.envs) > 1 THEN Ends_("usage", "one environment")
             ELSE \/ \E listed \in WalletListings :
                       Ends_("shortlist", [listed |-> listed, candidates |->
                         Candidates(listed, invoice, PaymentFlags.currency, scope.envs)])
                  \/ Ends_("api", "refused")
      BY <2>5 DEF ListWallets
    <3>2. pc' = "ended" /\ result'.kind \in {"usage", "shortlist", "api"}
      BY <3>1, EndsSay
    <3> QED BY <2>1, <2>5, <3>1, <3>2
  <2> QED BY <2>2, <2>3, <2>4, <2>5
<1>2. given.kind = "api" /\ given \in Commands
  BY <1>1 DEF PInv, Staged
<1>3. Steady' /\ Accounted'
  BY <1>1, <1>2, AuthorizedKeeps
<1>4. LocalMistakesAskNothing'
  BY <1>1, <1>2, CheckedWithoutCurrency DEF PInv, LocalMistakesAskNothing, IsFriendlyPayment, Operation
<1>5. TypeOK'
  BY <1>1, <1>3, TypeKeeps DEF PInv, TypeOK
<1>6. Staged' /\ Holding' /\ Built'
  BY <1>1, HoldingKeeps, UnbuiltKeeps DEF PInv, Staged
<1> QED BY <1>3, <1>4, <1>5, <1>6 DEF PInv

\* A payment's currency is read once its flags are checked.
LEMMA FillCurrencyKeeps == PInv /\ FillCurrency => PInv'
<1> SUFFICES ASSUME PInv, FillCurrency PROVE PInv'
  OBVIOUS
<1>1. /\ pc = "currency"
      /\ UNCHANGED <<given, scope, target, warned, questions, login, exchanged, reserved, request>>
      /\ \/ pc' = "ended" /\ result'.kind \in {"usage", "api"} /\ currency' = currency
         \/ pc' = "reserve" /\ result' = result /\ currency' \in Currencies \ {None}
      /\ \/ contacts' = contacts
         \/ FillError \in {Fine, Ok} /\ Used("api", scope.org)
  <2>1. pc = "currency" /\ UNCHANGED <<given, scope, target, warned, questions, login, exchanged, reserved, request>>
    BY DEF FillCurrency
  <2>2. CASE FillError \notin {Fine, Ok}
    <3>1. Ends_("usage", FillError) /\ currency' = currency /\ contacts' = contacts
      BY <2>2 DEF FillCurrency
    <3> QED BY <2>1, <3>1, EndsSay
  <2>3. CASE FillError \in {Fine, Ok}
    <3>1. /\ Used("api", scope.org)
          /\ \/ Ends_("api", "refused") /\ UNCHANGED currency
             \/ \E read \in Currencies :
                  IF read = None THEN Ends_("usage", "unknown currency") /\ UNCHANGED currency
                  ELSE IF ~UnitFits(read) THEN Ends_("usage", "unit of wallet") /\ UNCHANGED currency
                  ELSE currency' = read /\ pc' = "reserve" /\ UNCHANGED result
      BY <2>3 DEF FillCurrency
    <3>2. \/ pc' = "ended" /\ result'.kind \in {"usage", "api"} /\ currency' = currency
          \/ pc' = "reserve" /\ result' = result /\ currency' \in Currencies \ {None}
      BY <3>1, EndsSay
    <3> QED BY <2>1, <2>3, <3>1, <3>2
  <2> QED BY <2>2, <2>3
<1>2. given.kind = "api" /\ given \in Commands /\ Opened
  BY <1>1 DEF PInv, Staged, Steady
<1>7. FillError \in {Fine, Ok} =>
        CheckPayment(PaymentFlags, given.alias) = Fine /\ AuthorizeError = Ok
  <2>1. ASSUME CheckPayment(PaymentFlags, given.alias) # Fine
        PROVE  CheckPayment(PaymentFlags, given.alias) # Ok
    BY DEF CheckPayment, MetadataError, ReceiveError, SendError, Fine, Ok
  <2>2. AuthorizeError # Fine
    BY DEF AuthorizeError, Credential, Resolved, Selected, SelectAccount, Fine, Ok
  <2>3. "org" \notin {Fine, Ok}
    BY DEF Fine, Ok
  <2> QED BY <2>1, <2>2, <2>3 DEF FillError
<1>3. Steady' /\ Accounted'
  BY <1>1, <1>2, <1>7, AuthorizedKeeps
<1>4. LocalMistakesAskNothing'
  BY <1>1, <1>2, <1>7, CheckedWithoutCurrency DEF PInv, LocalMistakesAskNothing, IsFriendlyPayment, Operation
<1>8. currency' \in {None, "btc", "usd"}
  BY <1>1, CommandsAreLines DEF PInv, TypeOK
<1>5. TypeOK'
  BY <1>1, <1>3, <1>8, TypeKeeps DEF PInv, TypeOK
<1>6. Staged'
  BY <1>1, <1>2 DEF PInv, Staged
<1>9. result'.kind \notin {"sent", "not executed"}
  BY <1>1 DEF PInv, TypeOK
<1>10. Holding' /\ Built'
  BY <1>1, <1>9, HoldingKeeps, UnbuiltKeeps
<1> QED BY <1>3, <1>4, <1>5, <1>6, <1>10 DEF PInv

\* A payment that is built passed its checks.
LEMMA BuiltIsChecked ==
    ASSUME given \in Commands, IsBuilt, IsFriendlyPayment
    PROVE  CheckPayment(given.payment, given.alias) = Fine
<1>1. Body = Payment(PaymentFlags, given.alias, scope)
  BY DEF Body, IsFriendlyPayment
<1>2. Body.error = Fine
  BY DEF IsBuilt, BuildError
<1>3. CheckPayment(PaymentFlags, given.alias) = Fine
  BY <1>1, <1>2 DEF Payment, Fine
<1> QED BY <1>3, CheckedWithoutCurrency

\* A request is sent with the one credential, as it was built.
LEMMA SendKeeps == PInv /\ Send => PInv'
<1> SUFFICES ASSUME PInv, Send PROVE PInv'
  OBVIOUS
<1>1. /\ pc = "execute" /\ pc' = "ended" /\ ~Describes /\ result'.kind \in {"auth", "sent", "api"}
      /\ UNCHANGED <<given, scope, target, currency, warned, questions, login, exchanged, reserved, request>>
      /\ contacts' = contacts \/ (AuthorizeError = Ok /\ Used("api", scope.org))
  BY EndsSay DEF Send
<1>2. given.kind = "api" /\ given \in Commands /\ IsBuilt
  BY <1>1 DEF PInv, Staged, Built
<1>3. Steady' /\ Accounted'
  BY <1>1, <1>2, AuthorizedKeeps
<1>4. LocalMistakesAskNothing'
  BY <1>1, <1>2, BuiltIsChecked DEF LocalMistakesAskNothing, IsFriendlyPayment, Operation
<1>5. TypeOK'
  BY <1>1, <1>3, TypeKeeps DEF PInv, TypeOK
<1>6. Built'
  BY <1>1, BuiltKeeps DEF Built
<1>7. Holding'
  <2>1. (reserved => ReservesFile) /\ (ReservesFile => reserved)
    BY <1>1 DEF PInv, Holding
  <2>2. given' = given /\ reserved' = reserved /\ ReservesFile' = ReservesFile /\ Describes' = Describes
    BY <1>1, GivenStays
  <2>3. pc' \notin {"price", "build", "execute", "local"} /\ result'.kind # "not executed"
    BY <1>1
  <2>4. (reserved' => ReservesFile') /\ (ReservesFile' => reserved')
    BY <2>1, <2>2
  <2>5. given.kind = "api" /\ ~Describes
    BY <1>1, <1>2
  <2> QED BY <2>2, <2>3, <2>4, <2>5 DEF Holding
<1>8. Staged'
  BY <1>1 DEF PInv, Staged
<1> QED BY <1>3, <1>4, <1>5, <1>6, <1>7, <1>8 DEF PInv

\* A checkout is sent with its token.
LEMMA SendCheckoutKeeps == PInv /\ SendCheckout => PInv'
<1> SUFFICES ASSUME PInv, SendCheckout PROVE PInv'
  OBVIOUS
<1> DEFINE c0 == [where |-> "api", org |-> None, key |-> given.token, name |-> None]
<1>1. /\ pc = "execute" /\ pc' = "ended" /\ ~Describes /\ result'.kind \in {"auth", "sent", "api"}
      /\ UNCHANGED <<given, scope, target, currency, warned, questions, login, exchanged, reserved, request>>
      /\ contacts' = contacts \/ contacts' = Append(contacts, c0)
      /\ Operation.auth = "checkout"
  BY EndsSay DEF SendCheckout
<1>2. given.kind = "api" /\ given \in Commands /\ IsBuilt
  BY <1>1 DEF PInv, Staged, Built
<1>3. Steady' /\ Accounted'
  <2>1. CASE contacts' = contacts
    BY <1>1, <1>2, <2>1, AuthorizedKeeps
  <2>2. CASE contacts' = Append(contacts, c0)
    <3>1. OfNoAccount(c0)
      BY <1>1 DEF OfNoAccount
    <3>2. Accounted'
      BY <1>1, <2>2, <3>1, StrangerKeeps
    <3>3. Opened' = Opened /\ Stated' = Stated /\ Own' = Own /\ OwnIsLogin' = OwnIsLogin /\ Needs' = Needs
      BY <1>1, GivenStays, NeedsStay
    <3>4. Steady'
      BY <1>1, <3>3 DEF PInv, Steady
    <3> QED BY <3>2, <3>4
  <2> QED BY <1>1, <2>1, <2>2
<1>4. LocalMistakesAskNothing'
  BY <1>1, <1>2, BuiltIsChecked DEF LocalMistakesAskNothing, IsFriendlyPayment, Operation
<1>5. TypeOK'
  BY <1>1, <1>3, TypeKeeps DEF PInv, TypeOK
<1>6. Built'
  BY <1>1, BuiltKeeps DEF Built
<1>7. Holding'
  <2>1. (reserved => ReservesFile) /\ (ReservesFile => reserved)
    BY <1>1 DEF PInv, Holding
  <2>2. given' = given /\ reserved' = reserved /\ ReservesFile' = ReservesFile /\ Describes' = Describes
    BY <1>1, GivenStays
  <2>3. pc' \notin {"price", "build", "execute", "local"} /\ result'.kind # "not executed"
    BY <1>1
  <2>4. (reserved' => ReservesFile') /\ (ReservesFile' => reserved')
    BY <2>1, <2>2
  <2>5. given.kind = "api" /\ ~Describes
    BY <1>1, <1>2
  <2> QED BY <2>2, <2>3, <2>4, <2>5 DEF Holding
<1>8. Staged'
  BY <1>1 DEF PInv, Staged
<1> QED BY <1>3, <1>4, <1>5, <1>6, <1>7, <1>8 DEF PInv

\* A listing of a login's organizations or environments, which ends the command.
LEMMA DiscoverKeeps == PInv /\ Discover => PInv'
<1> SUFFICES ASSUME PInv, Discover PROVE PInv'
  OBVIOUS
<1> DEFINE selected == IF given.what = "org" THEN scope.org
                       ELSE IF Len(scope.envs) = 1 THEN scope.envs[1] ELSE None
           of == IF given.what = "org" THEN None ELSE scope.org
<1>0. pc = "local" /\ UNCHANGED <<given, scope, target, currency, warned, questions, login, exchanged, reserved, request>>
  BY DEF Discover
<1>1. \/ contacts' = contacts /\ pc' = "ended" /\ result'.kind = "usage"
      \/ /\ Credential.error = Ok /\ Used("auth", of)
         /\ pc' = "ended" /\ result'.kind \in {"usage", "listed"}
  <2>1. CASE given.get /\ selected = None
    <3>1. Ends_("usage", "scope") /\ contacts' = contacts
      BY <2>1 DEF Discover, Ok
    <3> QED BY <3>1, EndsSay
  <2>2. CASE ~(given.get /\ selected = None) /\ given.what = "env" /\ AuthorizeError # Ok
    <3>1. Ends_("usage", AuthorizeError) /\ contacts' = contacts
      BY <2>2 DEF Discover, Ok
    <3> QED BY <3>1, EndsSay
  <2>3. CASE ~(given.get /\ selected = None) /\ ~(given.what = "env" /\ AuthorizeError # Ok) /\ Credential.error # Ok
    <3>1. Ends_("usage", Credential.error) /\ contacts' = contacts
      BY <2>3 DEF Discover, Ok
    <3> QED BY <3>1, EndsSay
  <2>4. CASE /\ ~(given.get /\ selected = None) /\ ~(given.what = "env" /\ AuthorizeError # Ok)
             /\ Credential.error = Ok /\ ~IsLogin
    <3>1. Ends_("usage", "needs a login") /\ contacts' = contacts
      BY <2>4 DEF Discover, Ok
    <3> QED BY <3>1, EndsSay
  <2>5. CASE /\ ~(given.get /\ selected = None) /\ ~(given.what = "env" /\ AuthorizeError # Ok)
             /\ Credential.error = Ok /\ IsLogin
    <3>1. /\ Used("auth", of)
          /\ \E listed \in Listings[given.what] :
               IF given.get
               THEN IF selected \in listed THEN Ends_("listed", {selected}) ELSE Ends_("usage", "not visible")
               ELSE Ends_("listed", listed)
      BY <2>5 DEF Discover, Ok
    <3>2. pc' = "ended" /\ result'.kind \in {"usage", "listed"}
      BY <3>1, EndsSay
    <3> QED BY <2>5, <3>1, <3>2
  <2> QED BY <2>1, <2>2, <2>3, <2>4, <2>5
<1>2. given.kind \notin {"api", "convert"} /\ Opened
  BY <1>0 DEF PInv, Staged, Steady
<1>3. Accounted'
  <2>1. CASE contacts' = contacts
    BY <1>0, <1>1, <2>1, GivenStays DEF PInv, Accounted, Contacts, OfOwn, OfNoAccount
  <2>2. CASE Credential.error = Ok /\ Used("auth", of)
    <3>1. Own.error = Ok
      BY <1>2, <2>2, CredentialIsOwn DEF PInv
    <3>2. "auth" \in {"auth", "api"} /\ "auth" # "api" /\ (of = None \/ of = scope'.org) /\ scope'.org = scope.org
      BY <1>0
    <3> QED BY <1>0, <1>1, <1>2, <2>2, <3>1, <3>2, UseKeeps
  <2> QED BY <1>1, <2>1, <2>2
<1>4. Steady'
  <2>1. Opened' = Opened /\ Stated' = Stated /\ Own' = Own /\ OwnIsLogin' = OwnIsLogin /\ Needs' = Needs
    BY <1>0, <1>1, GivenStays, NeedsStay
  <2> QED BY <1>0, <1>1, <1>2, <2>1 DEF PInv, Steady
<1>5. LocalMistakesAskNothing'
  BY <1>0, <1>2 DEF LocalMistakesAskNothing
<1>6. TypeOK'
  BY <1>0, <1>1, <1>3, TypeKeeps DEF PInv, TypeOK
<1>7. Staged' /\ Holding' /\ Built'
  BY <1>0, <1>1, HoldingKeeps, UnbuiltKeeps DEF PInv, Staged
<1> QED BY <1>3, <1>4, <1>5, <1>6, <1>7 DEF PInv

\* Nothing of the command changes.
LEMMA StutterKeeps == PInv /\ UNCHANGED vars => PInv'
<1> SUFFICES ASSUME PInv, UNCHANGED vars PROVE PInv'
  OBVIOUS
<1>0. UNCHANGED <<given, pc, scope, target, currency, warned, questions, contacts, login, exchanged, reserved, request, result>>
  BY DEF vars
<1>1. /\ Settings' = Settings /\ Operation' = Operation /\ Stated' = Stated /\ Own' = Own
      /\ OwnIsLogin' = OwnIsLogin /\ Describes' = Describes /\ ReservesFile' = ReservesFile
      /\ Opened' = Opened /\ Needs' = Needs
  BY <1>0, GivenStays, NeedsStay DEF Opened, IsOpen, Settings
<1>2. TypeOK' /\ Staged'
  BY <1>0 DEF PInv, TypeOK, Staged
<1>3. Steady'
  BY <1>0, <1>1 DEF PInv, Steady
<1>4. Contacts' = Contacts
  BY <1>0 DEF Contacts
<1>5. Accounted'
  BY <1>0, <1>1, <1>4 DEF PInv, Accounted, OfOwn, OfNoAccount
<1>6. IsBuilt' = IsBuilt
  BY <1>0, <1>1 DEF IsBuilt, BuildError, Body, HasBody, Operation, PaymentFlags, IsChange, InvoiceFlagsError
<1>7. Built'
  BY <1>0, <1>6 DEF PInv, Built
<1>8. Shown(request.body)' = Shown(request.body)
  BY <1>0 DEF Shown, Values, IsShown, ShownFields, Has
<1>9. Holding'
  BY <1>0, <1>1, <1>8 DEF PInv, Holding
<1>10. LocalMistakesAskNothing'
  BY <1>0 DEF PInv, LocalMistakesAskNothing, IsFriendlyPayment, Operation
<1> QED BY <1>2, <1>3, <1>5, <1>7, <1>9, <1>10 DEF PInv

\* Every step of a command keeps the invariant.
LEMMA StepKeeps == PInv /\ [Next]_vars => PInv'
<1> SUFFICES ASSUME PInv, [Next]_vars PROVE PInv'
  OBVIOUS
<1>1. CASE SkipOpen \/ Convert_ \/ Open \/ Pick
  BY <1>1, SkipOpenKeeps, ConvertKeeps, OpenKeeps, PickKeeps
<1>2. CASE AskCredential \/ AskOrg \/ Exchange \/ AskEnv \/ AskWallet \/ StopAsking
  BY <1>2, AskCredentialKeeps, AskOrgKeeps, ExchangeKeeps, AskEnvKeeps, AskWalletKeeps, StopAskingKeeps
<1>3. CASE ListWallets \/ NoShortlist \/ FillCurrency \/ NoFill \/ Reserve
  BY <1>3, ListWalletsKeeps, PassingKeeps, FillCurrencyKeeps, ReserveKeeps
<1>4. CASE Build \/ Describe \/ Send \/ SendCheckout \/ RefuseSecret
  BY <1>4, BuildKeeps, DescribeKeeps, SendKeeps, SendCheckoutKeeps, RefuseSecretKeeps
<1>5. CASE CreateProfile \/ Discover \/ Report
  BY <1>5, LocalEndsKeep, DiscoverKeeps
<1>6. CASE Ended \/ UNCHANGED vars
  BY <1>6, StutterKeeps DEF Ended
<1> QED BY <1>1, <1>2, <1>3, <1>4, <1>5, <1>6 DEF Next

\* The whole preparation keeps the inductive invariant.
THEOREM Prepared == Spec => []PInv
BY InitKeeps, StepKeeps, PTL DEF Spec

-----------------------------------------------------------------------------
(* What follows: whose request it is *)

\* What the stores and the command line guarantee of the command at hand.
LEMMA GivenParts ==
    ASSUME given \in Commands
    PROVE  /\ Variables \subseteq DOMAIN given.env
           /\ \A p \in DOMAIN Settings.profiles :
                Settings.profiles[p].org # None /\ Settings.profiles[p].env # None
           /\ None \notin DOMAIN Settings.accounts
           /\ \A a \in DOMAIN Settings.accounts : Settings.accounts[a].kind \in {"user", "api_key"}
BY CommandsAreLines, SavesAreComplete DEF Settings

\* A scope in use that is none, or what its flags, its profile and its variables state.
LEMMA ScopeInUse ==
    ASSUME PInv
    PROVE  /\ scope.org # None /\ Stated.org.value # None => scope.org = Stated.org.value
           /\ scope # NoScope => Opened
           /\ Opened => scope.org = Stated.org.value \/ Stated.org.value = None
           /\ Opened => scope.envs = Stated.envs.value \/ Stated.envs.value = <<>>
           /\ Opened => scope.wallet = Stated.wallet.value \/ "wallet" \in questions
BY DEF PInv, Steady, NoScope

\* What is said to be ignored is.
LEMMA IgnoredHolds == PInv => IgnoredIsInert
<1> SUFFICES ASSUME PInv, IsOpen, NEW v \in {w \in Variables : given.env[w] # None}
             PROVE  v \in Ignored(given.flags, given.env, Settings)
                      <=> Using(given.flags, [given.env EXCEPT ![v] = None], Settings)
                            = Using(given.flags, given.env, Settings)
  BY DEF IgnoredIsInert, Using
<1>1. Variables \subseteq DOMAIN given.env
  BY GivenParts DEF PInv, Staged
<1> QED BY <1>1, UnsetIsIgnored

\* A profile pins what it names.
LEMMA ProfileHolds == PInv => ProfilePins
<1> SUFFICES ASSUME PInv, IsOpen, given.flags.profile # None PROVE ProfilePins
  BY DEF ProfilePins
<1> DEFINE profile == Profile(given.flags, Settings)
<1>1. profile.org # None /\ profile.env # None
  <2>1. given.flags.profile \in DOMAIN Settings.profiles
    BY DEF IsOpen, ScopeError, ProfileIsKnown, Ok
  <2> QED BY <2>1, GivenParts DEF Profile, PInv, Staged
<1>2. given.flags.org = None => Stated.org.value = profile.org
  BY <1>1 DEF Stated, Scope, FlagOr, Sourced
<1>3. given.flags.envs = <<>> => Stated.envs.value = <<profile.env>>
  BY DEF Stated, Scope
<1>4. Stated.wallet.value \in {None, given.flags.wallet}
  BY DEF Stated, Scope, FlagOr, Sourced, Ambient
<1>5. CASE Opened
  BY <1>1, <1>2, <1>3, <1>4, <1>5, ScopeInUse DEF ProfilePins
<1>6. CASE scope = NoScope
  BY <1>6 DEF ProfilePins, NoScope
<1> QED BY <1>5, <1>6, ScopeInUse

\* Each contact of a command with an account is of the credential that is selected.
LEMMA ContactsAreOwn ==
    ASSUME PInv, IsOpen, Operation.auth = "account", NEW c \in Contacts
    PROVE  OfOwn(c)
BY DEF PInv, Accounted, OfNoAccount, IsOpen

\* The one account that was named is used.
LEMMA NamedHolds == PInv => NamedAccountOnly
<1> SUFFICES ASSUME PInv, IsOpen, Operation.auth = "account", Stated.account.value # None, NEW c \in Contacts
             PROVE  c.key = None /\ c.name = Stated.account.value
  BY DEF NamedAccountOnly, Stated
<1>1. Own.error = Ok /\ c.key = Own.key /\ c.name = Own.name
  BY ContactsAreOwn DEF OfOwn
<1>2. AmbientKey(given.flags, given.env) = None
  BY DEF AmbientKey, Stated, Scope, FlagOr, Sourced
<1>3. Own.key = None /\ Own.name = SelectAccount(Stated, Settings).name
  BY <1>1, <1>2, UsedAsNamed DEF Own
<1>4. SelectAccount(Stated, Settings).problem = Ok
  BY <1>1, <1>2, UsedAsNamed DEF Own, Selected
<1> QED BY <1>1, <1>3, <1>4, AccountIsNamed

\* What `context` tells is what is used.
LEMMA ContextHolds == PInv => ContextTellsTheTruth
<1> DEFINE told == Inspected(given.flags, given.env, Settings)
           selected == Selected(given.flags, given.env, Stated, Settings)
<1> SUFFICES ASSUME PInv, IsOpen, Operation.auth = "account"
             PROVE  /\ \A c \in Contacts : told.problem = Ok /\ c.name = told.account.value
                    /\ Own.url # None => told.url.value = Own.url
  BY DEF ContextTellsTheTruth, Own, Stated
<1>0. /\ told.problem = selected.problem /\ told.account = ReportedAccount(Stated, selected)
      /\ told.url = ReportedUrl(given.flags, Stated, selected, Settings)
  BY DEF Inspected, Stated
<1>1. given \in Commands
  BY DEF PInv, Staged
<1>2. ASSUME Own.error = Ok
      PROVE  /\ selected.problem = Ok /\ Own.name = selected.name /\ Own.key = selected.key
             /\ selected.key # None \/ selected.name # None
             /\ selected.key # None => selected.name = None
             /\ selected.name # None => selected.name \in DOMAIN Settings.accounts
  <2>1. selected.problem = Ok /\ Own.name = selected.name /\ Own.key = selected.key
    BY <1>2, UsedAsNamed DEF Own
  <2>2. CASE AmbientKey(given.flags, given.env) # None
    BY <2>1, <2>2 DEF Selected
  <2>3. CASE AmbientKey(given.flags, given.env) = None
    <3>1. SelectAccount(Stated, Settings).problem = Ok
      BY <2>1, <2>3 DEF Selected
    <3>2. SelectAccount(Stated, Settings).name \in DOMAIN Settings.accounts
      BY <3>1, AccountIsNamed
    <3>3. selected.key = None /\ selected.name = SelectAccount(Stated, Settings).name
      BY <2>3, <3>1 DEF Selected
    <3> QED BY <1>1, <2>1, <3>2, <3>3, GivenParts
  <2> QED BY <2>2, <2>3
<1>3. ASSUME NEW c \in Contacts PROVE told.problem = Ok /\ c.name = told.account.value
  <2>1. Own.error = Ok /\ c.name = Own.name
    BY ContactsAreOwn DEF OfOwn
  <2> QED BY <1>0, <1>2, <2>1 DEF ReportedAccount
<1>4. ASSUME Own.url # None PROVE told.url.value = Own.url
  <2> DEFINE account == Settings.accounts[selected.name]
  <2>1. /\ Own.error = Ok /\ account.kind # "api_key" /\ given.flags.authUrl # BadUrl /\ selected.key = None
        /\ Own.url = IF given.flags.authUrl # None THEN given.flags.authUrl ELSE account.url
    BY <1>4 DEF Own, Resolved, Ok
  <2>2. selected.name # None /\ selected.name \in DOMAIN Settings.accounts
    BY <1>2, <2>1
  <2>3. account.kind = "user"
    BY <1>1, <2>1, <2>2, GivenParts
  <2>4. ~AuthUrlMismatch(given.flags, account)
    BY <1>2, <2>1, <2>2, <2>3 DEF Selected, BoundElsewhere, Ok
  <2>5. Own.url = account.url
    BY <2>1, <2>3, <2>4 DEF AuthUrlMismatch
  <2>6. told.url.value = account.url
    BY <1>0, <2>2, <2>3 DEF ReportedUrl, Sourced
  <2> QED BY <2>5, <2>6
<1> QED BY <1>3, <1>4

\* What holds its own elements in order.
IsSequence(s) == s \in Seq(ToSet(s))

\* A function of the first numbers is a sequence of its values.
LEMMA NumberedHolds ==
    ASSUME NEW n \in Nat, NEW f, DOMAIN f = 1..n, f = [i \in 1..n |-> f[i]]
    PROVE  IsSequence(f)
<1>1. f \in [1..n -> ToSet(f)]
  BY DEF ToSet
<1> HIDE DEF ToSet
<1>2. f \in Seq(ToSet(f))
  BY <1>1
<1> QED BY <1>2 DEF IsSequence

\* Sequences of nothing and of one element.
LEMMA ShortHolds ==
    /\ IsSequence(<<>>) /\ ToSet(<<>>) = {}
    /\ \A e : IsSequence(<<e>>) /\ ToSet(<<e>>) = {e}
<1>1. ToSet(<<>>) = {}
  BY DEF ToSet
<1>2. ASSUME NEW e PROVE ToSet(<<e>>) = {e}
  BY DEF ToSet
<1>3. ASSUME NEW e PROVE <<e>> \in Seq({e})
  OBVIOUS
<1> QED BY <1>1, <1>2, <1>3 DEF IsSequence

\* What two sequences hold together.
LEMMA JoinedHolds ==
    ASSUME NEW s, NEW t, IsSequence(s), IsSequence(t)
    PROVE  IsSequence(s \o t) /\ ToSet(s \o t) = ToSet(s) \cup ToSet(t)
<1> DEFINE S == ToSet(s)
           T == ToSet(t)
<1>0. s \in Seq(S) /\ t \in Seq(T)
  BY DEF IsSequence
<1>1. /\ Len(s) \in Nat /\ Len(t) \in Nat
      /\ DOMAIN s = 1..Len(s) /\ DOMAIN t = 1..Len(t) /\ DOMAIN (s \o t) = 1..(Len(s) + Len(t))
      /\ \A i \in 1..Len(s) : (s \o t)[i] = s[i]
      /\ \A i \in 1..Len(t) : (s \o t)[Len(s) + i] = t[i]
      /\ s \o t \in Seq(S \cup T)
  <2> HIDE DEF S, T
  <2>1. s \in Seq(S \cup T) /\ t \in Seq(S \cup T)
    BY <1>0
  <2> QED BY <2>1
<1>3. ASSUME NEW e \in ToSet(s \o t) PROVE e \in S \cup T
  <2>1. PICK i \in 1..(Len(s) + Len(t)) : e = (s \o t)[i]
    BY <1>1, <1>3 DEF ToSet
  <2>2. CASE i \in 1..Len(s)
    BY <1>1, <2>1, <2>2 DEF ToSet
  <2>3. CASE i \notin 1..Len(s)
    <3>1. i - Len(s) \in 1..Len(t) /\ i = Len(s) + (i - Len(s))
      BY <1>1, <2>3
    <3>2. e = t[i - Len(s)]
      BY <1>1, <2>1, <3>1
    <3> QED BY <1>1, <3>1, <3>2 DEF ToSet
  <2> QED BY <2>2, <2>3
<1>4. S \subseteq ToSet(s \o t)
  BY <1>1 DEF ToSet
<1>5. ASSUME NEW e \in T PROVE e \in ToSet(s \o t)
  <2>1. PICK i \in 1..Len(t) : e = t[i]
    BY <1>1 DEF ToSet
  <2>2. Len(s) + i \in 1..(Len(s) + Len(t)) /\ e = (s \o t)[Len(s) + i]
    BY <1>1, <2>1
  <2> QED BY <1>1, <2>2 DEF ToSet
<1>6. ToSet(s \o t) = S \cup T
  BY <1>3, <1>4, <1>5
<1> HIDE DEF S, T
<1>7. s \o t \in Seq(ToSet(s \o t))
  BY <1>1, <1>6
<1> QED BY <1>6, <1>7 DEF IsSequence, S, T

\* The environments that the scope's filters name are those in use, and the wallet.
LEMMA ScopeFiltersHold ==
    ASSUME NEW operation, NEW s, IsSequence(s.envs)
    PROVE  /\ IsSequence(ScopeFilters(operation, s))
           /\ \A p \in ToSet(ScopeFilters(operation, s)) :
                \/ p[1] = "env" /\ p[2] \in ToSet(s.envs)
                \/ p[1] = "wallet" /\ p[2] = s.wallet /\ s.wallet # None
<1> DEFINE envs == [i \in DOMAIN s.envs |-> <<"env", s.envs[i]>>]
           pair == <<"wallet", s.wallet>>
           first == IF {"environment", "environments"} \cap operation.filters # {} THEN envs ELSE <<>>
           second == IF "wallet" \in operation.filters /\ s.wallet # None THEN <<pair>> ELSE <<>>
<1>1. Len(s.envs) \in Nat /\ DOMAIN s.envs = 1..Len(s.envs)
  BY DEF IsSequence
<1>2. IsSequence(envs)
  BY <1>1, NumberedHolds
<1>3. \A p \in ToSet(envs) : p[1] = "env" /\ p[2] \in ToSet(s.envs)
  <2>1. ASSUME NEW i \in DOMAIN s.envs PROVE envs[i] = <<"env", s.envs[i]>>
    OBVIOUS
  <2>2. DOMAIN envs = DOMAIN s.envs
    OBVIOUS
  <2> HIDE DEF envs
  <2> QED BY <2>1, <2>2 DEF ToSet
<1> HIDE DEF envs
<1>4. IsSequence(first) /\ \A p \in ToSet(first) : p[1] = "env" /\ p[2] \in ToSet(s.envs)
  BY <1>2, <1>3, ShortHolds
<1>5. IsSequence(second) /\ \A p \in ToSet(second) : p = pair /\ s.wallet # None
  BY ShortHolds
<1>6. ScopeFilters(operation, s) = first \o second
  BY DEF ScopeFilters, envs
<1> HIDE DEF first, second
<1>7. IsSequence(first \o second) /\ ToSet(first \o second) = ToSet(first) \cup ToSet(second)
  BY <1>4, <1>5, JoinedHolds
<1> QED BY <1>4, <1>5, <1>6, <1>7

\* What a query names: the scope's own filters, the command's and the overrides, and how it is paged.
LEMMA QueryHolds ==
    ASSUME NEW operation, NEW filters, NEW overrides, NEW s,
           IsSequence(s.envs), IsSequence(filters), IsSequence(overrides),
           NEW own, own = ToSet(ScopeFilters(operation, s)) \cup ToSet(filters) \cup ToSet(overrides)
    PROVE  ToSet(Query(operation, filters, overrides, s)) =
             own \cup (IF "pagination" \in operation.filters /\ ~\E p \in own : p[1] \in {"pagination", "offset"}
                       THEN {<<"pagination", "cursor">>} ELSE {})
<1> DEFINE scoped == ScopeFilters(operation, s)
           pairs == scoped \o filters \o overrides
           more == <<"pagination", "cursor">>
<1>1. IsSequence(scoped)
  BY ScopeFiltersHold
<1>2. IsSequence(scoped \o filters) /\ ToSet(scoped \o filters) = ToSet(scoped) \cup ToSet(filters)
  BY <1>1, JoinedHolds
<1>3. IsSequence(pairs) /\ ToSet(pairs) = own
  BY <1>2, JoinedHolds
<1> HIDE DEF pairs, scoped
<1>4. ToSet(Append(pairs, more)) = own \cup {more}
  <2>1. Append(pairs, more) = pairs \o <<more>>
    <3> DEFINE T == ToSet(pairs) \cup {more}
    <3>1. pairs \in Seq(T) /\ more \in T
      BY <1>3 DEF IsSequence
    <3> HIDE DEF T, more
    <3> QED BY <3>1, AppendIsConcat
  <2> HIDE DEF more
  <2> QED BY <1>3, <2>1, ShortHolds, JoinedHolds
<1>5. Query(operation, filters, overrides, s) = Paged(operation, pairs)
  BY DEF Query, pairs, scoped
<1> QED BY <1>3, <1>4, <1>5 DEF Paged

\* What a request that was built is of.
LEMMA RequestParts ==
    ASSUME PInv, request # None
    PROVE  /\ given.kind = "api" /\ Opened /\ BuildError = Fine
           /\ request.path = Path(Operation, target, scope)
           /\ request.query = Query(Operation, given.filters, given.overrides, scope)
           /\ request.body = Body.body
BY DEF PInv, Built, IsBuilt

\* What a path and a query were checked for.
LEMMA BuildChecks ==
    ASSUME BuildError = Fine
    PROVE  /\ Body.error = Fine
           /\ PathError(Operation, target, scope) = Fine
           /\ QueryError(Operation, given.overrides, scope) = Fine
           /\ HasBody => CheckPayload(Operation, given.alias, Body.body, scope) = Fine
BY DEF BuildError

\* The pairs of a request that name an environment or a wallet are the scope's.
LEMMA ScopePairs ==
    ASSUME PInv, request # None, NEW p \in ToSet(request.query)
    PROVE  /\ p[1] = "env" => p[2] \in ToSet(scope.envs)
           /\ p[1] = "wallet" => p[2] = scope.wallet /\ scope.wallet # None
<1>1. given \in Commands /\ IsSequence(scope.envs)
  BY DEF PInv, Staged, Steady, IsSequence
<1>2. /\ IsSequence(given.filters) /\ IsSequence(given.overrides)
      /\ \A f \in ToSet(given.filters) : f[1] \notin {"env", "wallet"}
  BY <1>1, CommandsAreLines DEF IsSequence
<1>3. \A o \in ToSet(given.overrides) : o[1] \notin {"env", "wallet"}
  BY RequestParts, BuildChecks DEF QueryError, Fine
<1> DEFINE own == ToSet(ScopeFilters(Operation, scope)) \cup ToSet(given.filters) \cup ToSet(given.overrides)
<1>4. p \in own \/ p = <<"pagination", "cursor">>
  <2> HIDE DEF own
  <2>1. p \in ToSet(Query(Operation, given.filters, given.overrides, scope))
    BY RequestParts
  <2>2. own = ToSet(ScopeFilters(Operation, scope)) \cup ToSet(given.filters) \cup ToSet(given.overrides)
    BY DEF own
  <2> QED BY <1>1, <1>2, <2>1, <2>2, QueryHolds
<1>5. CASE p \in ToSet(ScopeFilters(Operation, scope))
  BY <1>1, <1>5, ScopeFiltersHold
<1> QED BY <1>2, <1>3, <1>4, <1>5

\* A bound key reaches nothing of another organization or environment.
LEMMA BoundHolds == PInv => BoundKeyStaysHome
<1> SUFFICES ASSUME PInv, NEW c \in Contacts, c.name # None, Settings.accounts[c.name].kind = "api_key"
             PROVE  LET account == Settings.accounts[c.name] IN
                    /\ account.org # None => c.org \in {None, account.org}
                    /\ request # None /\ account.env # None =>
                         /\ request.path.env \in {None, account.env}
                         /\ \A p \in ToSet(request.query) : p[1] = "env" => p[2] = account.env
  BY DEF BoundKeyStaysHome
<1> DEFINE account == Settings.accounts[c.name]
<1>1. Opened /\ Own.error = Ok /\ c.name = Own.name /\ c.org \in {None, scope.org}
  BY DEF PInv, Accounted, OfOwn, OfNoAccount
<1>2. ~BoundElsewhere(account, Stated)
  BY <1>1, UsedAsNamed DEF Own
<1>3. ~OwnIsLogin
  BY <1>1 DEF OwnIsLogin
<1>4. scope.org = Stated.org.value /\ scope.envs = Stated.envs.value
  BY <1>1, <1>3 DEF PInv, Steady
<1>5. account.org # None => scope.org \in {None, account.org}
  BY <1>2, <1>4 DEF BoundElsewhere
<1>6. account.env # None => \A e \in ToSet(scope.envs) : e = account.env
  BY <1>2, <1>4 DEF BoundElsewhere
<1>7. ASSUME request # None, account.env # None
      PROVE  /\ request.path.env \in {None, account.env}
             /\ \A p \in ToSet(request.query) : p[1] = "env" => p[2] = account.env
  <2>1. request.path.env = IF "environment" \in Operation.path THEN scope.envs[1] ELSE None
    BY <1>7, RequestParts DEF Path
  <2>2. "environment" \in Operation.path => Len(scope.envs) = 1
    BY <1>7, RequestParts, BuildChecks DEF PathError, Fine
  <2>3. scope.envs \in Seq(ToSet(scope.envs))
    BY DEF PInv, Steady
  <2>4. Len(scope.envs) = 1 => scope.envs[1] \in ToSet(scope.envs)
    BY <2>3
  <2>5. request.path.env \in {None, account.env}
    BY <1>6, <1>7, <2>1, <2>2, <2>4
  <2>6. \A p \in ToSet(request.query) : p[1] = "env" => p[2] = account.env
    BY <1>6, <1>7, ScopePairs
  <2> QED BY <2>5, <2>6
<1> QED BY <1>1, <1>5, <1>7

\* One command is of one organization.
LEMMA OrganizationHolds == PInv => OneOrganization
<1> DEFINE orgs == ({c.org : c \in Contacts} \cup (IF request = None THEN {} ELSE {request.path.org})) \ {None}
<1> SUFFICES ASSUME PInv, given.kind # "convert"
             PROVE  /\ Cardinality(orgs) <= 1
                    /\ given.flags.org # None => orgs \subseteq {given.flags.org}
                    /\ \A c \in Contacts : c.where = "api" /\ c.name # None =>
                         (Settings.accounts[c.name].kind = "user" => c.org # None)
  BY DEF OneOrganization
<1>1. ASSUME NEW c \in Contacts
      PROVE  /\ c.org # None => c.org = scope.org /\ Opened
             /\ c.where = "api" /\ c.name # None => (Settings.accounts[c.name].kind = "user" => c.org # None)
  BY DEF PInv, Accounted, OfOwn, OfNoAccount, OwnIsLogin
<1>2. ASSUME request # None PROVE request.path.org \in {None, scope.org} /\ Opened
  BY <1>2, RequestParts DEF Path
<1>3. orgs \subseteq {scope.org} /\ (orgs # {} => Opened)
  BY <1>1, <1>2
<1>4. Cardinality(orgs) <= 1
  <2>1. IsFiniteSet({scope.org}) /\ Cardinality({scope.org}) = 1
    BY FS_Singleton
  <2> HIDE DEF orgs
  <2> QED BY <1>3, <2>1, FS_Subset
<1>5. given.flags.org # None /\ Opened => scope.org = given.flags.org
  BY ScopeInUse DEF Stated, Scope, FlagOr, Sourced
<1>6. given.flags.org # None => orgs \subseteq {given.flags.org}
  BY <1>3, <1>5
<1> QED BY <1>1, <1>4, <1>6

\* From the first request to the last, the organization, the environment, the account, the key and
\* the services are those that the flags, the profile or the variables name, for any command lines,
\* settings and answers of the services.
THEOREM ScopeRight == Spec => []ScopeIsRight
<1>1. PInv => ScopeIsRight
  BY IgnoredHolds, ProfileHolds, NamedHolds, ContextHolds, BoundHolds, OrganizationHolds DEF ScopeIsRight, PInv
<1> QED BY <1>1, Prepared, PTL

-----------------------------------------------------------------------------
(* What follows: when *)

\* What is sent has its file, and what is described takes none.
LEMMA ReservedHolds == PInv => ReservedUnlessDescribed
BY DEF PInv, Holding, ReservedUnlessDescribed, ReservesFile, Describes

\* A path of one name, and one of two.
LEMMA OfOne ==
    /\ \A t, x : t = <<x>> => t[1] = x /\ Len(t) = 1 /\ 1 \in DOMAIN t
    /\ \A t, x, y : t = <<x, y>> => Len(t) # 1
OBVIOUS

\* A description shows nothing private.
LEMMA PrivateHolds == PInv => NothingPrivateIsShown
<1> SUFFICES ASSUME PInv, result.kind = "not executed", ~given.showSecrets, NEW path \in result.detail
             PROVE  /\ \A i \in DOMAIN path : path[i] \notin Private
                    /\ path \in {<<"data">>, <<"events">>} => request.body[path[1]] # NotObject
  BY DEF NothingPrivateIsShown
<1>1. request.body # None /\ path \in Shown(request.body)
  BY DEF PInv, Holding
<1>2. PICK value \in Values(request.body) : value.path = path /\ IsShown(value)
  BY <1>1 DEF Shown
<1>3. ASSUME NEW i \in DOMAIN path PROVE path[i] \notin Private
  BY <1>2 DEF IsShown, ShownFields, Private
<1>4. ASSUME NEW f, f \in {"data", "events"}, path = <<f>> PROVE request.body[path[1]] # NotObject
  <2>1. path[1] = f /\ Len(path) = 1 /\ 1 \in DOMAIN path
    BY <1>4, OfOne
  <2>2. value.shaped
    BY <1>2, <1>4, <2>1 DEF IsShown
  <2>3. value \notin given.deeper
    <3>1. given \in Commands
      BY DEF PInv, Staged
    <3>2. \A v \in given.deeper : Len(v.path) # 1
      BY <3>1, CommandsAreLines
    <3>3. Len(value.path) = 1
      BY <1>2, <2>1
    <3> QED BY <3>2, <3>3
  <2>4. ASSUME NEW g, value = [path |-> <<g>>, shaped |-> request.body[g] # NotObject]
        PROVE  request.body[path[1]] # NotObject
    <3>1. value.path = <<g>> /\ (value.shaped => request.body[g] # NotObject)
      BY <2>4
    <3>2. path = <<g>>
      BY <1>2, <3>1
    <3>3. path[1] = g
      BY <3>2, OfOne
    <3> QED BY <2>2, <3>1, <3>3
  <2>5. ASSUME NEW g PROVE path # <<"data", g>>
    <3>1. path = <<"data", g>> => Len(path) # 1
      BY OfOne
    <3> QED BY <2>1, <3>1
  <2>6. \/ value \in given.deeper
        \/ \E g : value = [path |-> <<g>>, shaped |-> request.body[g] # NotObject]
        \/ \E g : value.path = <<"data", g>>
    <3> DEFINE own == {[path |-> <<g>>, shaped |-> request.body[g] # NotObject] : g \in DOMAIN request.body}
               data == {[path |-> <<"data", g>>, shaped |-> request.body.data[g] # NotObject] :
                          g \in DOMAIN request.body.data}
    <3>1. value \in own \/ value \in given.deeper \/ value \in data
      BY <1>2 DEF Values
    <3>2. CASE value \in own
      BY <3>2
    <3>3. ASSUME value \in data PROVE \E g : value.path = <<"data", g>>
      <4>1. PICK g : value = [path |-> <<"data", g>>, shaped |-> request.body.data[g] # NotObject]
        BY <3>3
      <4>2. value.path = <<"data", g>>
        BY <4>1
      <4> QED BY <4>2
    <3> QED BY <3>1, <3>2, <3>3
  <2> QED BY <1>2, <2>3, <2>4, <2>5, <2>6
<1> QED BY <1>3, <1>4

-----------------------------------------------------------------------------
(* Decimals *)

Tenfold(power, n) == 10 * power

\* Folding's lemmas of the digits of a number, and on the powers of ten.
Numbering == INSTANCE Folding WITH Op <- Shifted
Scaling == INSTANCE Folding WITH Op <- Tenfold

\* The powers of ten are positive, each ten times the one before.
LEMMA PowersGrow ==
    /\ Power(0) = 1
    /\ \A n \in Nat : Power(n) \in Nat /\ Power(n) > 0 /\ Power(n + 1) = 10 * Power(n)
<1> DEFINE f == CHOOSE g : g = [n \in Nat |-> IF n = 0 THEN 1 ELSE 10 * g[n - 1]]
<1>1. \E g : g = [n \in Nat |-> IF n = 0 THEN 1 ELSE 10 * g[n - 1]]
  <2>1. \E g : Scaling!Recurs(g, Nat, 1)
    BY Scaling!RecursOnNat
  <2> QED
    BY <2>1 DEF Scaling!Recurs, Tenfold
<1>2. f = [n \in Nat |-> IF n = 0 THEN 1 ELSE 10 * f[n - 1]]
  BY <1>1
<1>3. powersOfTen = f
  BY DEF powersOfTen
<1> HIDE DEF f
<1>4. f[0] = 1
  BY <1>2
<1>5. ASSUME NEW n \in Nat PROVE f[n + 1] = 10 * f[n]
  <2>1. n + 1 \in Nat /\ n + 1 # 0 /\ (n + 1) - 1 = n
    OBVIOUS
  <2> QED
    BY <1>2, <2>1
<1> DEFINE S == {n \in Nat : f[n] \in Nat /\ f[n] > 0}
<1>6. 0 \in S
  BY <1>4
<1>7. ASSUME NEW n \in Nat, n \in S PROVE n + 1 \in S
  BY <1>5, <1>7
<1>8. \A n \in Nat : n \in S
  <2> HIDE DEF S
  <2> QED BY <1>6, <1>7, Scaling!Inductive
<1> QED BY <1>3, <1>4, <1>5, <1>8 DEF Power

\* A power of ten may be split.
LEMMA PowersMultiply == \A m, n \in Nat : Power(m + n) = Power(m) * Power(n)
<1> TAKE m \in Nat
<1> DEFINE S == {n \in Nat : Power(m + n) = Power(m) * Power(n)}
<1>1. 0 \in S
  BY PowersGrow
<1>2. ASSUME NEW n \in Nat, n \in S PROVE n + 1 \in S
  <2>1. Power(m + (n + 1)) = 10 * Power(m + n)
    <3>1. m + (n + 1) = (m + n) + 1 /\ m + n \in Nat
      OBVIOUS
    <3> QED BY <3>1, PowersGrow
  <2>2. Power(n + 1) = 10 * Power(n) /\ Power(n) \in Nat /\ Power(m) \in Nat
    BY PowersGrow
  <2>3. Power(m + n) = Power(m) * Power(n)
    BY <1>2
  <2>4. Power(m + (n + 1)) = Power(m) * Power(n + 1)
    BY <2>1, <2>2, <2>3
  <2> QED BY <2>4
<1>3. \A n \in Nat : n \in S
  <2> HIDE DEF S
  <2> QED BY <1>1, <1>2, Scaling!Inductive
<1> QED BY <1>3

\* The same of a power and the two it is split in.
LEMMA PowersSplit == \A l, m, n \in Nat : l = m + n => Power(l) = Power(m) * Power(n)
BY PowersMultiply

\* The value of digits, one by one.
LEMMA ValueGrows ==
    /\ Value(<<>>) = 0
    /\ \A s \in Seq(0..9) : Value(s) \in Nat
    /\ \A s \in Seq(0..9), d \in 0..9 : Value(Append(s, d)) = 10 * Value(s) + d
<1>1. \A s : Value(s) = Numbering!Fold(0, s)
  BY DEF Value, Shifted, Numbering!Fold, Numbering!MapThenFoldSet, Numbering!Max, FoldLeft, MapThenFoldSet, Max
<1>2. \A n \in Nat, d \in 0..9 : Shifted(n, d) \in Nat
  BY DEF Shifted
<1>3. \A s \in Seq(0..9) : Numbering!Fold(0, s) \in Nat
  BY <1>2, Numbering!FoldKeeps
<1>4. \A s \in Seq(0..9), d \in 0..9 : Numbering!Fold(0, Append(s, d)) = Shifted(Numbering!Fold(0, s), d)
  BY Numbering!FoldAppend
<1> QED BY <1>1, <1>3, <1>4, Numbering!FoldEmpty DEF Shifted

\* A longer start of a sequence.
LEMMA StartsGrow ==
    ASSUME NEW D, NEW s \in Seq(D), NEW n \in 0..Len(s)
    PROVE  /\ SubSeq(s, 1, n) \in Seq(D) /\ Len(SubSeq(s, 1, n)) = n
           /\ SubSeq(s, 1, Len(s)) = s /\ SubSeq(s, 1, 0) = <<>>
           /\ n < Len(s) => /\ s[n + 1] \in D
                            /\ SubSeq(s, 1, n + 1) = Append(SubSeq(s, 1, n), s[n + 1])
<1>1. n \in Nat /\ Len(s) \in Nat /\ n <= Len(s)
  OBVIOUS
<1>2. SubSeq(s, 1, n) \in Seq(D) /\ Len(SubSeq(s, 1, n)) = n
  BY <1>1, SubSeqProperties
<1>3. SubSeq(s, 1, Len(s)) = s /\ SubSeq(s, 1, 0) = <<>>
  OBVIOUS
<1>4. ASSUME n < Len(s)
      PROVE  s[n + 1] \in D /\ SubSeq(s, 1, n + 1) = Append(SubSeq(s, 1, n), s[n + 1])
  BY <1>1, <1>4
<1> QED BY <1>2, <1>3, <1>4

\* Zeros at the end scale what is before them.
LEMMA ZerosScale ==
    ASSUME NEW s \in Seq(0..9), NEW k \in 0..Len(s), \A i \in (k + 1)..Len(s) : s[i] = 0
    PROVE  Value(s) = Value(SubSeq(s, 1, k)) * Power(Len(s) - k)
<1> DEFINE v == Value(SubSeq(s, 1, k))
           S == {j \in Nat : k + j <= Len(s) => Value(SubSeq(s, 1, k + j)) = v * Power(j)}
<1>1. v \in Nat /\ k \in Nat /\ Len(s) \in Nat
  <2>1. SubSeq(s, 1, k) \in Seq(0..9)
    BY StartsGrow
  <2>2. v \in Nat
    BY <2>1, ValueGrows
  <2> QED BY <2>2
<1> HIDE DEF v
<1>2. 0 \in S
  <2>1. k + 0 = k /\ v * 1 = v
    BY <1>1
  <2>2. Value(SubSeq(s, 1, k)) = v
    BY DEF v
  <2> QED BY <2>1, <2>2, PowersGrow
<1>3. ASSUME NEW j \in Nat, j \in S PROVE j + 1 \in S
  <2>1. SUFFICES ASSUME k + (j + 1) <= Len(s)
                 PROVE  Value(SubSeq(s, 1, k + (j + 1))) = v * Power(j + 1)
    OBVIOUS
  <2>2. PICK n : n = k + j
    OBVIOUS
  <2>3. n \in 0..Len(s) /\ n < Len(s) /\ n + 1 = k + (j + 1) /\ n + 1 \in (k + 1)..Len(s)
    BY <1>1, <2>1, <2>2
  <2>4. Value(SubSeq(s, 1, n)) = v * Power(j)
    BY <1>3, <2>2, <2>3
  <2>5. SubSeq(s, 1, n) \in Seq(0..9) /\ SubSeq(s, 1, n + 1) = Append(SubSeq(s, 1, n), 0)
    BY <2>3, StartsGrow
  <2>6. Value(SubSeq(s, 1, n + 1)) = 10 * Value(SubSeq(s, 1, n)) + 0
    <3>1. PICK t \in Seq(0..9) : t = SubSeq(s, 1, n)
      BY <2>5
    <3>2. 0 \in 0..9
      OBVIOUS
    <3>3. Value(Append(t, 0)) = 10 * Value(t) + 0
      BY <3>2, ValueGrows
    <3> QED BY <2>5, <3>1, <3>3
  <2>7. Power(j) \in Nat /\ Power(j + 1) = 10 * Power(j)
    BY PowersGrow
  <2>8. Value(SubSeq(s, 1, n + 1)) = v * Power(j + 1)
    BY <1>1, <2>4, <2>6, <2>7
  <2> QED BY <2>3, <2>8
<1>4. \A j \in Nat : j \in S
  <2> HIDE DEF S
  <2> QED BY <1>2, <1>3, Scaling!Inductive
<1>5. PICK j : j = Len(s) - k
  OBVIOUS
<1>6. j \in Nat /\ k + j = Len(s)
  BY <1>1, <1>5
<1>7. Value(SubSeq(s, 1, k + j)) = v * Power(j)
  BY <1>4, <1>6
<1>8. SubSeq(s, 1, k + j) = s
  BY <1>6, StartsGrow
<1> QED BY <1>5, <1>7, <1>8 DEF v

\* The significant digits of a fraction end with the last that is not zero.
LEMMA SignificantIs ==
    ASSUME NEW s \in Seq(0..9)
    PROVE  \E k \in 0..Len(s) :
             /\ Significant(s) = SubSeq(s, 1, k) /\ Len(Significant(s)) = k
             /\ \A i \in (k + 1)..Len(s) : s[i] = 0
             /\ k > 0 => s[k] # 0
<1> DEFINE ends == {i \in DOMAIN s : s[i] # 0}
<1>1. DOMAIN s = 1..Len(s) /\ Len(s) \in Nat
  OBVIOUS
<1>2. CASE ends = {}
  <2>1. Significant(s) = <<>> /\ SubSeq(s, 1, 0) = <<>> /\ Len(<<>>) = 0
    BY <1>2 DEF Significant
  <2>2. \A i \in (0 + 1)..Len(s) : s[i] = 0
    BY <1>1, <1>2
  <2>3. 0 \in 0..Len(s)
    BY <1>1
  <2> QED BY <2>1, <2>2, <2>3
<1>3. CASE ends # {}
  <2>1. PICK k \in Nat : k = Max(ends) /\ k \in ends /\ \A i \in ends : i <= k
    <3>1. ends \subseteq 1..Len(s)
      BY <1>1
    <3>2. Scaling!Max(ends) \in ends /\ \A i \in ends : Scaling!Max(ends) >= i
      <4> HIDE DEF ends
      <4> QED BY <1>1, <1>3, <3>1, Scaling!Greatest
    <3>3. PICK m : m = Max(ends)
      OBVIOUS
    <3>4. m = Scaling!Max(ends)
      BY <3>3 DEF Scaling!Max, Max
    <3> HIDE DEF ends
    <3>5. m \in ends /\ \A i \in ends : m >= i
      BY <3>2, <3>4
    <3>6. m \in 1..Len(s)
      BY <3>1, <3>5
    <3>7. m \in Nat /\ \A i \in ends : i <= m
      BY <1>1, <3>1, <3>5, <3>6
    <3> QED BY <3>3, <3>5, <3>7
  <2>2. k \in 1..Len(s) /\ s[k] # 0
    BY <1>1, <2>1
  <2>3. Significant(s) = SubSeq(s, 1, k)
    BY <1>3, <2>1 DEF Significant
  <2>4. Len(SubSeq(s, 1, k)) = k
    BY <2>2, StartsGrow
  <2>5. ASSUME NEW i \in (k + 1)..Len(s) PROVE s[i] = 0
    <3>1. i \in DOMAIN s /\ ~ (i <= k)
      BY <1>1
    <3>2. i \notin ends
      BY <2>1, <3>1
    <3> QED BY <3>1, <3>2
  <2> QED BY <2>2, <2>3, <2>4, <2>5
<1> QED BY <1>2, <1>3

\* What is multiplied by the same positive number.
LEMMA Cancels == \A a, b \in Int, c \in Nat : c > 0 => (a * c = b * c <=> a = b)
OBVIOUS

\* A common scale of both sides is left out.
LEMMA ScaleCancels ==
    ASSUME NEW n \in Nat, NEW w \in Nat, NEW v \in Nat, NEW a \in Nat, NEW z \in Nat, z > 0, NEW p \in Nat
    PROVE  n * (a * z) = (w * (a * z) + v * z) * p <=> n * a = (w * a + v) * p
<1>1. n * (a * z) = (n * a) * z
  OBVIOUS
<1>2. (w * (a * z) + v * z) * p = ((w * a + v) * p) * z
  <2>1. w * (a * z) + v * z = (w * a + v) * z
    OBVIOUS
  <2>2. PICK x \in Nat : x = w * a + v
    OBVIOUS
  <2>3. (x * z) * p = (x * p) * z
    OBVIOUS
  <2> QED BY <2>1, <2>2, <2>3
<1>3. PICK x \in Int, y \in Int : x = n * a /\ y = (w * a + v) * p
  OBVIOUS
<1>4. x * z = y * z <=> x = y
  BY Cancels
<1> QED BY <1>1, <1>2, <1>3, <1>4

\* A scale that the divisor divides.
LEMMA ScaleDivides ==
    ASSUME NEW n \in Nat, NEW w \in Nat, NEW v \in Nat, NEW a \in Nat, a > 0, NEW q \in Nat
    PROVE  n * a = (w * a + v) * (a * q) <=> n = w * (a * q) + v * q
<1>1. (w * a + v) * (a * q) = (w * (a * q) + v * q) * a
  <2>1. PICK x \in Nat : x = w * a + v
    OBVIOUS
  <2>2. x * (a * q) = (x * q) * a
    OBVIOUS
  <2>3. (w * a + v) * q = w * (a * q) + v * q
    OBVIOUS
  <2> QED BY <2>1, <2>2, <2>3
<1>2. PICK y \in Int : y = w * (a * q) + v * q
  OBVIOUS
<1>3. n * a = y * a <=> n = y
  BY Cancels
<1> QED BY <1>1, <1>2, <1>3

\* No scale by ten reaches a last digit.
LEMMA DigitIsLeft ==
    ASSUME NEW n \in Nat, NEW w \in Nat, NEW u \in Nat, NEW d \in 1..9,
           NEW p \in Nat, p > 0, NEW e \in Nat, NEW i \in Nat, p * (10 * e) = 10 * i
    PROVE  n * (p * (10 * e)) # (w * (10 * i) + (10 * u + d)) * p
<1>1. SUFFICES ASSUME n * (p * (10 * e)) = (w * (10 * i) + (10 * u + d)) * p PROVE FALSE
  OBVIOUS
<1>2. PICK x \in Nat : x = w * (10 * i) + (10 * u + d)
  OBVIOUS
<1>3. n * (p * (10 * e)) = (n * (10 * e)) * p
  OBVIOUS
<1>4. PICK y \in Int : y = n * (10 * e)
  OBVIOUS
<1>5. y * p = x * p
  BY <1>1, <1>2, <1>3, <1>4
<1>6. y = x
  BY <1>5, Cancels
<1>7. PICK g \in Nat, h \in Nat : g = n * e /\ h = w * i
  OBVIOUS
<1>8. n * (10 * e) = 10 * g /\ w * (10 * i) = 10 * h
  BY <1>7
<1> QED BY <1>2, <1>4, <1>6, <1>8

\* n is a decimal times a power of ten, and what that comes to.
IsScaled(n, w, digits, S) == n * Power(Len(digits)) = (w * Power(Len(digits)) + Value(digits)) * Power(S)

ScaledBy(w, digits, S) ==
    w * Power(S) + Value(Significant(digits)) * Power(S - Len(Significant(digits)))

\* The base units of a decimal whose fraction ends within its unit's scale, and of any other.
LEMMA ExactlyIs ==
    ASSUME NEW w \in Nat, NEW digits \in Seq(0..9), NEW S \in Nat, NEW k, k = Len(Significant(digits)),
           NEW n \in Nat
    PROVE  /\ k \in Nat /\ Value(digits) \in Nat /\ Value(Significant(digits)) \in Nat
           /\ k <= S => (IsScaled(n, w, digits, S) <=> n = ScaledBy(w, digits, S))
           /\ k > S => ~IsScaled(n, w, digits, S)
<1>1. PICK L \in Nat : L = Len(digits)
  OBVIOUS
<1>2. /\ k \in 0..L /\ k \in Nat /\ Significant(digits) = SubSeq(digits, 1, k)
      /\ \A i \in (k + 1)..L : digits[i] = 0
      /\ k > 0 => digits[k] # 0
  BY <1>1, SignificantIs
<1>3. PICK r \in Nat : r = L - k /\ L = k + r
  <2>1. L - k \in Nat /\ L = k + (L - k)
    BY <1>2
  <2> QED BY <2>1
<1>4. Significant(digits) \in Seq(0..9)
  BY <1>1, <1>2, StartsGrow
<1>5. PICK v \in Nat : v = Value(Significant(digits))
  BY <1>4, ValueGrows
<1>6. Value(digits) = v * Power(r) /\ Value(digits) \in Nat
  <2>1. Value(digits) = Value(SubSeq(digits, 1, k)) * Power(Len(digits) - k)
    BY <1>1, <1>2, ZerosScale
  <2> QED BY <1>1, <1>2, <1>3, <1>5, <2>1, ValueGrows
<1>7. PICK a \in Nat, z \in Nat, p \in Nat : a = Power(k) /\ z = Power(r) /\ p = Power(S) /\ a > 0 /\ z > 0 /\ p > 0
  BY <1>2, PowersGrow
<1>8. Power(L) = a * z
  BY <1>2, <1>3, <1>7, PowersSplit
<1>9. n * Power(L) = (w * Power(L) + Value(digits)) * p <=> n * a = (w * a + v) * p
  <2>1. z > 0
    BY <1>7
  <2>2. n * (a * z) = (w * (a * z) + v * z) * p <=> n * a = (w * a + v) * p
    BY <2>1, ScaleCancels
  <2> QED BY <1>6, <1>7, <1>8, <2>2
<1>10. ASSUME k <= S PROVE n * a = (w * a + v) * p <=> n = w * p + v * Power(S - k)
  <2>1. PICK f \in Nat : f = S - k /\ S = k + f
    <3>1. S - k \in Nat /\ S = k + (S - k)
      BY <1>2, <1>10
    <3> QED BY <3>1
  <2>2. PICK q \in Nat : q = Power(f)
    BY PowersGrow
  <2>3. p = a * q
    BY <1>2, <1>7, <2>1, <2>2, PowersSplit
  <2>4. a > 0
    BY <1>7
  <2>5. n * a = (w * a + v) * (a * q) <=> n = w * (a * q) + v * q
    BY <2>4, ScaleDivides
  <2> QED BY <2>1, <2>2, <2>3, <2>5
<1>11. ASSUME k > S PROVE n * a # (w * a + v) * p
  <2>1. PICK f \in Nat, i \in Nat : k = S + (f + 1) /\ k = i + 1 /\ i \in 0..L /\ i < L
    <3>1. k - S - 1 \in Nat /\ k - 1 \in Nat
      BY <1>2, <1>11
    <3>2. k = S + ((k - S - 1) + 1) /\ k = (k - 1) + 1 /\ k - 1 \in 0..L /\ k - 1 < L
      BY <1>2, <3>1
    <3> QED BY <3>1, <3>2
  <2>2. PICK e \in Nat, j \in Nat : e = Power(f) /\ j = Power(i)
    BY PowersGrow
  <2>3. a = p * (10 * e) /\ a = 10 * j
    <3>1. PICK g \in Nat : g = f + 1
      OBVIOUS
    <3>2. Power(g) = 10 * e
      BY <2>2, <3>1, PowersGrow
    <3>3. a = p * Power(g)
      BY <1>2, <1>7, <2>1, <3>1, PowersSplit
    <3>4. Power(k) = 10 * j
      BY <2>1, <2>2, PowersGrow
    <3> QED BY <1>7, <3>2, <3>3, <3>4
  <2>4. PICK u \in Nat, d \in 1..9 : v = 10 * u + d
    <3>1. /\ SubSeq(digits, 1, i) \in Seq(0..9) /\ digits[k] \in 0..9
          /\ SubSeq(digits, 1, k) = Append(SubSeq(digits, 1, i), digits[k])
      <4>1. i \in 0..Len(digits) /\ i < Len(digits)
        BY <1>1, <2>1
      <4> QED BY <2>1, <4>1, StartsGrow
    <3>2. PICK t \in Seq(0..9) : t = SubSeq(digits, 1, i)
      BY <3>1
    <3>3. PICK d \in 0..9 : d = digits[k]
      BY <3>1
    <3>4. Value(Append(t, d)) = 10 * Value(t) + d /\ Value(t) \in Nat
      BY ValueGrows
    <3>5. v = 10 * Value(t) + d
      BY <1>2, <1>5, <3>1, <3>2, <3>3, <3>4
    <3>6. d \in 1..9
      BY <1>2, <1>11, <3>3
    <3> QED BY <3>4, <3>5, <3>6
  <2>5. p > 0 /\ p * (10 * e) = 10 * j
    BY <1>7, <2>3
  <2>6. n * (p * (10 * e)) # (w * (10 * j) + (10 * u + d)) * p
    BY <2>5, DigitIsLeft
  <2> QED BY <2>3, <2>4, <2>6
<1>12. v = Value(Significant(digits)) /\ L = Len(digits) /\ p = Power(S)
  BY <1>1, <1>5, <1>7
<1> QED BY <1>2, <1>6, <1>9, <1>10, <1>11, <1>12 DEF IsScaled, ScaledBy

\* What is read of an amount is exactly it, and what is refused of a decimal no amount is.
LEMMA ReadExactly ==
    ASSUME NEW amount \in Decimals, NEW unit \in Units
    PROVE  /\ Parse(amount, unit) # Refused =>
                Parse(amount, unit) \in 0..MaxAmount /\ IsExactly(Parse(amount, unit), amount, unit)
           /\ amount.decimal /\ Parse(amount, unit) = Refused =>
                ~ \E n \in 0..MaxAmount : IsExactly(n, amount, unit)
<1>1. PICK w \in Nat, digits \in Seq(0..9) : w = amount.whole /\ digits = amount.digits
  BY DEF Decimals
<1>2. PICK S \in Nat : S = Scale[unit]
  BY ScalesAreNatural
<1>3. PICK k : k = Len(Significant(digits))
  OBVIOUS
<1>4. k \in Nat /\ Value(digits) \in Nat /\ Value(Significant(digits)) \in Nat
  <2>1. 0 \in Nat
    OBVIOUS
  <2> QED BY <1>3, <2>1, ExactlyIs
<1>5. PICK b : b = Base(amount, unit)
  OBVIOUS
<1>6. b = ScaledBy(w, digits, S)
  BY <1>1, <1>2, <1>5 DEF Base, ScaledBy
<1>7. k <= S => b \in Nat
  <2>1. ASSUME k <= S PROVE S - k \in Nat
    BY <1>4, <2>1
  <2>2. ASSUME k <= S PROVE b \in Nat
    <3>1. PICK p \in Nat, q \in Nat, v \in Nat : p = Power(S) /\ q = Power(S - k) /\ v = Value(Significant(digits))
      BY <1>4, <2>1, <2>2, PowersGrow
    <3>2. w * p + v * q \in Nat
      OBVIOUS
    <3> QED BY <1>3, <1>6, <3>1, <3>2 DEF ScaledBy
  <2> QED BY <2>2
<1>8. ASSUME NEW n \in Nat
      PROVE  (k <= S => (IsExactly(n, amount, unit) <=> n = b)) /\ (k > S => ~IsExactly(n, amount, unit))
  <2>1. /\ k <= S => (IsScaled(n, w, digits, S) <=> n = ScaledBy(w, digits, S))
        /\ k > S => ~IsScaled(n, w, digits, S)
    BY <1>3, ExactlyIs
  <2>2. IsExactly(n, amount, unit) <=> IsScaled(n, w, digits, S)
    BY <1>1, <1>2 DEF IsExactly, IsScaled
  <2> QED BY <1>6, <2>1, <2>2
<1>9. Parse(amount, unit) = IF ~amount.decimal \/ k > S THEN Refused ELSE IF b > MaxAmount THEN Refused ELSE b
  BY <1>1, <1>2, <1>3, <1>5 DEF Parse
<1>10. MaxAmount \in Nat /\ Refused \notin Nat /\ (k > S \/ k <= S)
  BY <1>4, WidthsAreNatural DEF Refused
<1>11. ASSUME Parse(amount, unit) # Refused
       PROVE  Parse(amount, unit) \in 0..MaxAmount /\ IsExactly(Parse(amount, unit), amount, unit)
  <2>1. k <= S /\ Parse(amount, unit) = b /\ ~ (b > MaxAmount)
    BY <1>9, <1>10, <1>11
  <2>2. b \in Nat
    BY <1>7, <2>1
  <2>3. IsExactly(b, amount, unit)
    BY <1>8, <2>1, <2>2
  <2>4. b \in 0..MaxAmount
    BY <1>10, <2>1, <2>2
  <2> QED BY <2>1, <2>3, <2>4
<1>12. ASSUME amount.decimal, Parse(amount, unit) = Refused, NEW n \in 0..MaxAmount
       PROVE  ~IsExactly(n, amount, unit)
  <2>1. n \in Nat /\ n <= MaxAmount
    BY <1>10
  <2>2. CASE k > S
    BY <1>8, <2>1, <2>2
  <2>3. CASE k <= S
    <3>1. b \in Nat
      BY <1>7, <2>3
    <3>2. ~ (k > S)
      BY <1>4, <2>3
    <3>3. b > MaxAmount
      BY <1>9, <1>10, <1>12, <3>1, <3>2
    <3>4. n # b
      BY <1>10, <2>1, <3>1, <3>3
    <3> QED BY <1>8, <2>1, <2>3, <3>4
  <2> QED BY <1>10, <2>2, <2>3
<1> QED BY <1>11, <1>12

-----------------------------------------------------------------------------
(* Conversions *)

\* A division that rounds is as near as a whole number can be.
LEMMA DividesNearest ==
    ASSUME NEW a \in Nat, NEW b \in Nat, b > 0
    PROVE  /\ Divide(a, b) \in Nat
           /\ 2 * (Divide(a, b) * b - a) <= b /\ -b <= 2 * (Divide(a, b) * b - a)
<1>1. PICK q : q = (a + b \div 2) \div b
  OBVIOUS
<1>2. q \in Nat /\ 2 * (q * b - a) <= b /\ -b <= 2 * (q * b - a)
  BY <1>1
<1> QED BY <1>1, <1>2 DEF Divide

\* The price as a whole number and a power of ten.
LEMMA RateIs ==
    ASSUME NEW price, price.whole \in Nat, price.digits \in Seq(0..9)
    PROVE  Rate(price).mantissa \in Nat /\ Rate(price).scale \in Nat
<1>1. PICK d \in Seq(0..9), whole \in Nat : d = price.digits /\ whole = price.whole
  OBVIOUS
<1>2. PICK n \in 0..Len(d) : n = Min({PriceDigits, Len(d)})
  <2>1. PriceDigits \in Nat /\ Len(d) \in Nat
    BY WidthsAreNatural
  <2>2. \E x \in {PriceDigits, Len(d)} : \A y \in {PriceDigits, Len(d)} : x <= y
    BY <2>1
  <2>3. PICK m : m = Min({PriceDigits, Len(d)})
    OBVIOUS
  <2>4. m \in {PriceDigits, Len(d)} /\ \A y \in {PriceDigits, Len(d)} : m <= y
    BY <2>2, <2>3 DEF Min
  <2>5. m \in 0..Len(d)
    BY <2>1, <2>4
  <2> QED BY <2>3, <2>5
<1>3. PICK digits \in Seq(0..9) : digits = SubSeq(d, 1, n) /\ Len(digits) = n
  <2>1. SubSeq(d, 1, n) \in Seq(0..9) /\ Len(SubSeq(d, 1, n)) = n
    BY StartsGrow
  <2> QED BY <2>1
<1>4. PICK v \in Nat, p \in Nat : v = Value(digits) /\ p = Power(n)
  <2>1. n \in Nat
    OBVIOUS
  <2> QED BY <2>1, ValueGrows, PowersGrow
<1>5. Rate(price) = [mantissa |-> whole * p + v, scale |-> n]
  BY <1>1, <1>2, <1>3, <1>4 DEF Rate
<1>6. n \in Nat
  OBVIOUS
<1>7. PICK x \in Nat : x = whole * p
  OBVIOUS
<1>8. x + v \in Nat
  OBVIOUS
<1> QED BY <1>5, <1>6, <1>7, <1>8

\* A quotient that is neither refused nor a panic is the rounded division.
LEMMA QuotientIs ==
    ASSUME NEW a, NEW b, a = Refused \/ a \in Nat, b \in Nat
    PROVE  /\ Quotient(a, b) \notin {Refused, Panics} => a # Refused /\ b # 0 /\ Quotient(a, b) = Divide(a, b)
           /\ Quotient(a, b) = Panics => b = 0
<1>1. CASE a = Refused \/ b = 0
  BY <1>1 DEF Quotient, Refused, Panics
<1>2. CASE a \in Nat /\ b > 0
  <2>1. Divide(a, b) \in Nat
    BY <1>2, DividesNearest
  <2>2. PICK q \in Nat : q = Divide(a, b)
    BY <2>1
  <2>3. Quotient(a, b) = Refused \/ Quotient(a, b) = q
    BY <1>2, <2>2 DEF Quotient
  <2> QED BY <1>2, <2>2, <2>3 DEF Refused, Panics
<1> QED BY <1>1, <1>2

\* A checked product is the product, or refused.
LEMMA ProductIs ==
    ASSUME NEW a, NEW b \in Nat, a = Refused \/ a \in Nat
    PROVE  Product(a, b) = Refused \/ (a \in Nat /\ a * b \in Nat /\ Product(a, b) = a * b)
<1>1. CASE a = Refused
  BY <1>1 DEF Product
<1>2. CASE a # Refused
  <2>1. PICK c \in Nat : c = a
    BY <1>2
  <2>2. c * b \in Nat
    OBVIOUS
  <2>3. Product(a, b) = Refused \/ Product(a, b) = a * b
    BY DEF Product
  <2> QED BY <2>1, <2>2, <2>3
<1> QED BY <1>1, <1>2

\* And so is one of three factors.
LEMMA ProductsAre ==
    ASSUME NEW a \in Nat, NEW b \in Nat, NEW c \in Nat, NEW n, n = Product(Product(a, b), c)
    PROVE  n = Refused \/ (n \in Nat /\ n = a * b * c)
<1>1. PICK p : p = Product(a, b)
  OBVIOUS
<1>2. PICK ab \in Nat : ab = a * b
  OBVIOUS
<1>3. p = Refused \/ p = ab
  BY <1>1, <1>2, ProductIs
<1>4. Product(p, c) = Refused \/ (p \in Nat /\ p * c \in Nat /\ Product(p, c) = p * c)
  <2>1. p = Refused \/ p \in Nat
    BY <1>2, <1>3
  <2> QED BY <2>1, ProductIs
<1>5. Product(p, c) = n
  BY <1>1
<1>6. CASE Product(p, c) = Refused
  BY <1>5, <1>6
<1>7. CASE p \in Nat /\ p * c \in Nat /\ Product(p, c) = p * c
  <2>1. p = ab
    BY <1>3, <1>7 DEF Refused
  <2> QED BY <1>2, <1>5, <1>7, <2>1
<1> QED BY <1>4, <1>6, <1>7

\* What a conversion comes to, where its divisor fits: it is refused, or the rounded quotient.
LEMMA ConvertsNearest ==
    ASSUME NEW rate, rate.mantissa \in Nat, rate.mantissa > 0, rate.scale \in Nat, NEW amount \in Nat, NEW unit,
           CurrencyOf(unit) = "usd" => PriceFits(rate)
    PROVE  /\ Convert(rate, amount, unit) # Panics
           /\ Convert(rate, amount, unit) # Refused =>
                /\ CurrencyOf(unit) = "usd" =>
                     Convert(rate, amount, unit)
                       = Divide(amount * MsatsPerBtc * Power(rate.scale), rate.mantissa * CentsPerUsd)
                /\ CurrencyOf(unit) # "usd" =>
                     Convert(rate, amount, unit)
                       = Divide(amount * rate.mantissa * CentsPerUsd, Power(rate.scale) * MsatsPerBtc)
           /\ amount * MsatsPerBtc * Power(rate.scale) \in Nat
           /\ amount * rate.mantissa * CentsPerUsd \in Nat
           /\ rate.mantissa * CentsPerUsd \in Nat /\ rate.mantissa * CentsPerUsd > 0
           /\ Power(rate.scale) * MsatsPerBtc \in Nat /\ Power(rate.scale) * MsatsPerBtc > 0
<1>1. PICK m \in Nat, p \in Nat, x \in Nat, y \in Nat :
         m = rate.mantissa /\ p = Power(rate.scale) /\ x = MsatsPerBtc /\ y = CentsPerUsd /\ m > 0 /\ p > 0 /\ x > 0 /\ y > 0
  <2>1. Power(rate.scale) \in Nat /\ Power(rate.scale) > 0
    BY PowersGrow
  <2>2. MsatsPerBtc \in Nat /\ CentsPerUsd \in Nat /\ MsatsPerBtc > 0 /\ CentsPerUsd > 0
    BY RatesArePositive
  <2> QED BY <2>1, <2>2
<1>2. /\ amount * x * p \in Nat /\ amount * m * y \in Nat
      /\ m * y \in Nat /\ m * y > 0 /\ p * x \in Nat /\ p * x > 0
  BY <1>1
<1>3. ASSUME CurrencyOf(unit) = "usd"
      PROVE  /\ Convert(rate, amount, unit) # Panics
             /\ Convert(rate, amount, unit) # Refused =>
                  Convert(rate, amount, unit) = Divide(amount * x * p, m * y)
  <2>1. Divisor(rate) = m * y
    <3>1. m * y <= MaxProduct /\ MaxProduct \in Nat
      BY <1>1, <1>3, WidthsAreNatural DEF PriceFits
    <3>2. PICK d \in Nat : d = m * y
      BY <1>2
    <3>3. d % (MaxProduct + 1) = d
      BY <3>1, <3>2
    <3> QED BY <1>1, <3>2, <3>3 DEF Divisor
  <2>2. PICK n : n = Product(Product(amount, x), p)
    OBVIOUS
  <2>3. n = Refused \/ (n \in Nat /\ n = amount * x * p)
    BY <1>1, <2>2, ProductsAre
  <2>4. Convert(rate, amount, unit) = Quotient(n, m * y)
    BY <1>1, <1>3, <2>1, <2>2 DEF Convert, CentsToMsats
  <2>5. /\ Quotient(n, m * y) \notin {Refused, Panics} => n # Refused /\ Quotient(n, m * y) = Divide(n, m * y)
        /\ Quotient(n, m * y) # Panics
    BY <1>2, <2>3, QuotientIs
  <2> QED BY <2>3, <2>4, <2>5
<1>4. ASSUME CurrencyOf(unit) # "usd"
      PROVE  /\ Convert(rate, amount, unit) # Panics
             /\ Convert(rate, amount, unit) # Refused =>
                  Convert(rate, amount, unit) = Divide(amount * m * y, p * x)
  <2>2. PICK n : n = Product(Product(amount, m), y)
    OBVIOUS
  <2>3. n = Refused \/ (n \in Nat /\ n = amount * m * y)
    BY <1>1, <2>2, ProductsAre
  <2>4. Convert(rate, amount, unit) = Quotient(n, p * x)
    BY <1>1, <1>4, <2>2 DEF Convert, MsatsToCents
  <2>5. /\ Quotient(n, p * x) \notin {Refused, Panics} => n # Refused /\ Quotient(n, p * x) = Divide(n, p * x)
        /\ Quotient(n, p * x) # Panics
    BY <1>2, <2>3, QuotientIs
  <2> QED BY <2>3, <2>4, <2>5
<1> QED BY <1>1, <1>2, <1>3, <1>4

-----------------------------------------------------------------------------
(* What a request and an end are of: a second invariant *)

\* Only a read picks the wallet it acts on, where none was named; a change is not even asked.
Targeted ==
    /\ target # given.target => given.target = None /\ Operation.targetsWallet /\ ~IsChange
    /\ pc = "ask" => ~(NeedsTarget /\ IsChange)

Early == {"start", "pick", "ask", "stop", "shortlist"}

\* Only a currency that was left out is read from a wallet, late, and the amount's unit fits it.
CurrencyRead ==
    /\ currency # given.payment.currency => given.payment.currency = None /\ UnitFits(currency)
    /\ pc \in Early => currency = given.payment.currency

\* The environments in use are some.
EnvsGiven == None \notin ToSet(scope.envs)

\* The unit an amount was written in, and what an invoice's prefix says.
PaidUnit == IF given.payment.unit = None THEN BaseUnit(currency) ELSE given.payment.unit
ReadInvoice == Invoice(given.invoice.letters, given.invoice.amount)

\* How a command ends says what was read: an invoice or an amount is refused only for what it is, a
\* conversion is what was computed, and a shortlist is of the invoice and the currency as given.
Truthful(kind, detail) ==
    /\ kind = "usage" /\ IsFriendlyPayment /\ detail = "invoice" =>
         given.invoice.letters \notin DOMAIN PayingNetworks \/ Msats(given.invoice.amount) = Unreadable
    /\ kind = "usage" /\ given.kind = "api" /\ IsFriendlyPayment /\ detail = "amount" =>
         Parse(given.payment.amount, PaidUnit) = Refused
    /\ kind \in {"converted", "panicked"} =>
         /\ RateIsValid(given.price) /\ given.kind = "convert"
         /\ Parse(given.payment.amount, given.payment.unit) # Refused
         /\ (IF kind = "panicked" THEN Panics ELSE detail)
              = Convert(Rate(given.price), Parse(given.payment.amount, given.payment.unit), given.payment.unit)
         /\ kind = "converted" => detail \notin {Refused, Panics}
    /\ kind = "shortlist" =>
         /\ detail.listed \in WalletListings /\ ReadInvoice.network # None
         /\ detail.candidates
              = Candidates(detail.listed, ReadInvoice, given.payment.currency, scope.envs)

Told == Truthful(result.kind, result.detail)

Asked == Targeted /\ CurrencyRead /\ EnvsGiven

\* What an end does not say is not wrong.
LEMMA SilentIsTruthful ==
    ASSUME NEW kind, NEW detail,
           kind \in {"usage", "converted", "panicked", "shortlist"} => kind = "usage" /\ detail \notin {"invoice", "amount"}
    PROVE  Truthful(kind, detail)
BY DEF Truthful

\* What is told of the line and of what is in use stays so.
LEMMA TruthStays ==
    ASSUME UNCHANGED <<given, scope, currency>>, NEW kind, NEW detail, Truthful(kind, detail),
           result'.kind = kind, result'.detail = detail
    PROVE  Told'
<1>1. PaidUnit' = PaidUnit /\ ReadInvoice' = ReadInvoice /\ IsFriendlyPayment' = IsFriendlyPayment /\ given' = given
      /\ scope' = scope
  BY DEF PaidUnit, ReadInvoice, IsFriendlyPayment, Operation
<1> QED BY <1>1 DEF Told, Truthful

\* An end that is truthful.
LEMMA EndsTruthfully ==
    ASSUME UNCHANGED <<given, scope, currency>>, NEW kind, NEW detail, Ends_(kind, detail), Truthful(kind, detail)
    PROVE  Told'
<1>1. result'.kind = kind /\ result'.detail = detail
  BY EndsSay
<1> QED BY <1>1, TruthStays

\* An end that says nothing.
LEMMA EndsSilently ==
    ASSUME UNCHANGED <<given, scope, currency>>, NEW kind, NEW detail, Ends_(kind, detail),
           kind \in {"usage", "converted", "panicked", "shortlist"} => kind = "usage" /\ detail \notin {"invoice", "amount"}
    PROVE  Told'
<1>1. Truthful(kind, detail)
  BY SilentIsTruthful
<1> QED BY <1>1, EndsTruthfully

\* A command that has not ended tells nothing.
LEMMA GoingOnIsTruthful == TypeOK' /\ pc' # "ended" => Told'
<1>1. TypeOK' /\ pc' # "ended" => result'.kind = "none"
  BY DEF TypeOK
<1> QED BY <1>1 DEF Told, Truthful

\* A step that picks nothing and reads no currency.
LEMMA AskedStays ==
    ASSUME Asked, UNCHANGED <<given, scope, target, currency>>,
           pc' = "ask" => pc = "ask", pc' \in Early => pc \in Early
    PROVE  Asked'
<1>1. Operation' = Operation /\ IsChange' = IsChange /\ NeedsTarget' = NeedsTarget
  BY DEF Operation, IsChange, NeedsTarget
<1>2. Targeted'
  BY <1>1 DEF Asked, Targeted
<1>3. UnitFits(currency)' = UnitFits(currency)
  BY DEF UnitFits, PaymentFlags
<1>4. CurrencyRead'
  BY <1>3 DEF Asked, CurrencyRead
<1>5. EnvsGiven'
  BY DEF Asked, EnvsGiven
<1> QED BY <1>2, <1>4, <1>5 DEF Asked

\* What may be wrong with a credential, and what is said of it.
LEMMA CredentialErrors ==
    /\ Credential.error \notin {"invoice", "amount"} /\ AuthorizeError \notin {"invoice", "amount"}
    /\ \A s, settings : SelectAccount(s, settings).problem \notin {"invoice", "amount"}
    /\ \A flags, env, settings : ScopeError(flags, env, settings) \notin {"invoice", "amount"}
<1>1. \A s, settings : SelectAccount(s, settings).problem \notin {"invoice", "amount"}
  BY DEF SelectAccount, Ok
<1>2. \A flags, env, s, settings : Selected(flags, env, s, settings).problem \notin {"invoice", "amount"}
  BY <1>1 DEF Selected, Ok
<1>3. Credential.error \notin {"invoice", "amount"}
  BY <1>2 DEF Credential, Resolved, Ok
<1>4. AuthorizeError \notin {"invoice", "amount"}
  BY <1>3 DEF AuthorizeError, Ok
<1>5. \A flags, env, settings : ScopeError(flags, env, settings) \notin {"invoice", "amount"}
  BY DEF ScopeError, Ok
<1> QED BY <1>1, <1>3, <1>4, <1>5

\* What may be wrong with a payment's flags before its currency is known.
LEMMA PaymentErrors == \A flags, alias : CheckPayment(flags, alias) \notin {"invoice", "amount"}
<1> TAKE flags, alias
<1>1. MetadataError(flags.metadata) \notin {"invoice", "amount"}
  BY DEF MetadataError, Fine
<1>2. ReceiveError(flags) \notin {"invoice", "amount"}
  BY DEF ReceiveError, Fine
<1>3. SendError(flags) \notin {"invoice", "amount"}
  BY DEF SendError, Fine
<1> QED BY <1>1, <1>2, <1>3 DEF CheckPayment

\* What may be wrong with any body, path and query.
LEMMA OtherErrors ==
    /\ \A operation, alias, body, s : CheckPayload(operation, alias, body, s) \notin {"invoice", "amount"}
    /\ \A operation, t, s : PathError(operation, t, s) \notin {"invoice", "amount"}
    /\ \A operation, overrides, s : QueryError(operation, overrides, s) \notin {"invoice", "amount"}
    /\ \A body : InvoiceFlagsError(body) \notin {"invoice", "amount"}
<1>1. ASSUME NEW operation, NEW alias, NEW body, NEW s
      PROVE  CheckPayload(operation, alias, body, s) \notin {"invoice", "amount"}
  <2>1. WalletError(body, s) \notin {"invoice", "amount"}
    BY DEF WalletError, Fine
  <2>2. EnvironmentError(body, s) \notin {"invoice", "amount"}
    BY DEF EnvironmentError, Fine
  <2>3. PaymentPayloadError(body, alias) \notin {"invoice", "amount"}
    BY DEF PaymentPayloadError, Fine
  <2> QED BY <2>1, <2>2, <2>3 DEF CheckPayload, Fine
<1>2. \A operation, t, s : PathError(operation, t, s) \notin {"invoice", "amount"}
  BY DEF PathError, Fine
<1>3. \A operation, overrides, s : QueryError(operation, overrides, s) \notin {"invoice", "amount"}
  BY DEF QueryError, Fine
<1>4. \A body : InvoiceFlagsError(body) \notin {"invoice", "amount"}
  BY DEF InvoiceFlagsError, Fine
<1> QED BY <1>1, <1>2, <1>3, <1>4

\* A payment's flags are those given, with the currency in use.
LEMMA FlagsInUse ==
    ASSUME given \in Commands
    PROVE  /\ PaymentFlags.currency = currency /\ PaymentFlags.invoice = given.payment.invoice
           /\ PaymentFlags.amount = given.payment.amount /\ PaymentFlags.unit = given.payment.unit
           /\ PaymentFlags.quote = given.payment.quote
BY CommandsAreLines DEF PaymentFlags

\* What a payment's body is refused for, and which amount is.
LEMMA AmountErrors ==
    ASSUME given \in Commands, IsFriendlyPayment
    PROVE  /\ Body.error # "invoice"
           /\ Body.error = "amount" => Parse(given.payment.amount, PaidUnit) = Refused
<1> DEFINE flags == PaymentFlags
           alias == given.alias
<1>1. Body.error = (CASE scope.wallet = None -> "wallet"
                      [] CheckPayment(flags, alias) # Fine -> CheckPayment(flags, alias)
                      [] flags.currency = None -> "currency"
                      [] OTHER -> BodyError(flags, alias))
  BY DEF Body, Payment, IsFriendlyPayment
<1>2. BodyError(flags, alias) # "invoice"
  BY DEF BodyError, Fine
<1>3. PaymentAmount(flags).amount = Parse(given.payment.amount, PaidUnit) \/ ~flags.amount.given
  BY FlagsInUse DEF PaymentAmount, AmountIn, PaidUnit
<1>4. BodyError(flags, alias) = "amount" => Parse(given.payment.amount, PaidUnit) = Refused
  BY <1>3 DEF BodyError, Fine
<1>5. CheckPayment(flags, alias) \notin {"invoice", "amount"}
  BY PaymentErrors
<1> QED BY <1>1, <1>2, <1>4, <1>5

-----------------------------------------------------------------------------
(* What an invoice says *)

\* Each prefix that is known is of one network, though some start alike.
LEMMA NetworkIs ==
    /\ Network("bc") = "mainnet" /\ Network("tb") = "testnet"
    /\ Network("tbs") = "signet" /\ Network("bcrt") = "regtest"
    /\ \A letters : letters \notin {"bc", "tb", "tbs", "bcrt"} => Network(letters) = None
<1>1. /\ DOMAIN Tried = 1..4
      /\ Tried[1] = <<"bcrt", "regtest">> /\ Tried[2] = <<"bc", "mainnet">>
      /\ Tried[3] = <<"tbs", "signet">> /\ Tried[4] = <<"tb", "testnet">>
  BY DEF Tried
<1>2. \A i : i \in 1..4 <=> i \in {1, 2, 3, 4}
  OBVIOUS
<1> DEFINE fits(letters) == {i \in DOMAIN Tried : Tried[i][1] \in StartsWith(letters)}
<1>3. fits("bc") = {2} /\ fits("tb") = {4} /\ fits("tbs") = {3, 4} /\ fits("bcrt") = {1, 2}
  BY <1>1, <1>2 DEF StartsWith
<1>4. Min({2}) = 2 /\ Min({4}) = 4 /\ Min({3, 4}) = 3 /\ Min({1, 2}) = 1
  BY DEF Min
<1>5. ASSUME NEW letters
      PROVE  Network(letters) = IF fits(letters) = {} \/ Tried[Min(fits(letters))][1] # letters THEN None
                                ELSE Tried[Min(fits(letters))][2]
  BY DEF Network
<1>6. ASSUME NEW letters, letters \notin {"bc", "tb", "tbs", "bcrt"} PROVE Network(letters) = None
  <2>1. StartsWith(letters) = {}
    BY <1>6 DEF StartsWith
  <2>2. fits(letters) = {}
    BY <2>1
  <2> QED BY <1>5, <2>2
<1> HIDE DEF fits
<1> QED BY <1>1, <1>3, <1>4, <1>5, <1>6

\* An amount that can be read is one, or none is stated.
LEMMA MsatsIs ==
    ASSUME NEW amount, amount.digits \in Nat, amount.unit \in {"absent", "malformed", "p"} \cup DOMAIN MsatsPerUnit
    PROVE  Msats(amount) \in Nat \cup {Unreadable, Unstated}
<1>1. CASE amount.unit \in {"absent", "malformed"}
  BY <1>1 DEF Msats
<1>2. CASE amount.unit = "p"
  BY <1>2 DEF Msats
<1>3. CASE amount.unit \notin {"absent", "malformed", "p"}
  <2>1. PICK d \in Nat, m \in Nat : d = amount.digits /\ m = MsatsPerUnit[amount.unit]
    BY <1>3, MultipliersAreNatural
  <2>2. d * m \in Nat
    OBVIOUS
  <2>3. Msats(amount) = IF d * m > MaxMsats THEN Unreadable ELSE d * m
    BY <1>3, <2>1 DEF Msats
  <2> QED BY <2>2, <2>3
<1> QED BY <1>1, <1>2, <1>3

\* An invoice is refused for its letters or its amount.
LEMMA InvoiceErrors ==
    ReadInvoice.network = None =>
      given.invoice.letters \notin DOMAIN PayingNetworks \/ Msats(given.invoice.amount) = Unreadable
<1>1. DOMAIN PayingNetworks = {"bc", "tb", "tbs", "bcrt"}
  BY DEF PayingNetworks
<1>2. {"mainnet", "testnet", "signet", "regtest"} \subseteq Networks
  BY DEF Networks
<1>3. \A letters \in {"bc", "tb", "tbs", "bcrt"} : Network(letters) # None
  BY <1>2, NetworkIs, NoNetworkIsNone
<1>4. ReadInvoice.network = IF Msats(given.invoice.amount) = Unreadable THEN None ELSE Network(given.invoice.letters)
  BY DEF ReadInvoice, Invoice
<1> QED BY <1>1, <1>3, <1>4

\* An invoice that was read has letters of a network and an amount that can be read.
LEMMA InvoiceReads ==
    ASSUME ReadInvoice.network # None
    PROVE  /\ given.invoice.letters \in {"bc", "tb", "tbs", "bcrt"}
           /\ Msats(given.invoice.amount) # Unreadable
           /\ ReadInvoice.network = Network(given.invoice.letters)
           /\ ReadInvoice.msats = Msats(given.invoice.amount)
<1>1. ReadInvoice.network = IF Msats(given.invoice.amount) = Unreadable THEN None ELSE Network(given.invoice.letters)
  BY DEF ReadInvoice, Invoice
<1>2. ReadInvoice.msats = Msats(given.invoice.amount)
  BY DEF ReadInvoice, Invoice
<1> QED BY <1>1, <1>2, NetworkIs

\* Only a wallet of an invoice's network pays it.
LEMMA PaysItsNetwork ==
    ASSUME ReadInvoice.network # None, NEW network
    PROVE  Pays(ReadInvoice.network, network) <=> network \in PayingNetworks[given.invoice.letters]
<1> DEFINE l == given.invoice.letters
<1>1. l \in {"bc", "tb", "tbs", "bcrt"} /\ ReadInvoice.network = Network(l)
  BY InvoiceReads
<1> HIDE DEF l
<1>2. CASE l = "bc"
  BY <1>1, <1>2, NetworkIs DEF Pays, PayingNetworks, l
<1>3. CASE l = "tb"
  BY <1>1, <1>3, NetworkIs DEF Pays, PayingNetworks, l
<1>4. CASE l = "tbs"
  BY <1>1, <1>4, NetworkIs DEF Pays, PayingNetworks, l
<1>5. CASE l = "bcrt"
  BY <1>1, <1>5, NetworkIs DEF Pays, PayingNetworks, l
<1> QED BY <1>1, <1>2, <1>3, <1>4, <1>5

-----------------------------------------------------------------------------
(* Every step keeps what was asked and tells the truth *)

\* Of a command that has just started, nothing was picked, read or told.
LEMMA InitAsks == Init => Asked /\ Told
<1> SUFFICES ASSUME Init PROVE Asked /\ Told
  OBVIOUS
<1>1. /\ target = given.target /\ currency = given.payment.currency /\ pc = "start" /\ scope.envs = <<>>
      /\ result.kind = "none"
  BY DEF Init, NoScope
<1>2. EnvsGiven
  BY <1>1, ShortHolds DEF EnvsGiven
<1>3. Told
  BY <1>1 DEF Told, Truthful
<1>4. Targeted /\ CurrencyRead
  BY <1>1 DEF Targeted, CurrencyRead
<1> QED BY <1>2, <1>3, <1>4 DEF Asked

\* The environments that a command line, a profile or a variable states.
LEMMA StatedEnvsGiven ==
    ASSUME PInv, ScopeError(given.flags, given.env, Settings) = Ok
    PROVE  None \notin ToSet(Stated.envs.value)
<1>1. given \in Commands /\ None \notin ToSet(given.flags.envs)
  BY CommandsAreLines DEF PInv, Staged
<1>2. given.flags.profile # None => Settings.profiles[given.flags.profile].env # None
  <2>1. given.flags.profile # None => given.flags.profile \in DOMAIN Settings.profiles
    BY DEF ScopeError, ProfileIsKnown, Ok
  <2> QED BY <1>1, <2>1, GivenParts
<1>3. Stated.envs.value = IF given.flags.envs # <<>> THEN given.flags.envs
                          ELSE IF given.flags.profile # None
                          THEN <<Settings.profiles[given.flags.profile].env>>
                          ELSE IF given.env.env = None THEN <<>> ELSE <<given.env.env>>
  BY DEF Stated, Scope, Profile
<1>4. ToSet(<<>>) = {} /\ \A e : ToSet(<<e>>) = {e}
  BY ShortHolds
<1> QED BY <1>1, <1>2, <1>3, <1>4

\* Opening the settings picks nothing.
LEMMA OpenAsks == PInv /\ Asked /\ Open => Asked' /\ (Told' \/ pc' # "ended")
<1> SUFFICES ASSUME PInv, Asked, Open PROVE Asked' /\ (Told' \/ pc' # "ended")
  OBVIOUS
<1>0. /\ pc = "start" /\ given' = given /\ target' = target /\ currency' = currency
  BY DEF Open
<1> DEFINE relative == Directory(given.flags, given.env).value \in Relative
           error == ScopeError(given.flags, given.env, Settings)
<1>1. \/ \E e : e \notin {"invoice", "amount"} /\ Ends_("usage", e) /\ scope' = scope
      \/ /\ pc' = "pick" /\ error = Ok /\ scope'.envs = Stated.envs.value
  <2>1. CASE relative
    <3>1. "relative directory" # Ok
      BY DEF Ok
    <3>2. Ends_("usage", "relative directory") /\ UNCHANGED <<scope, warned>>
      BY <2>1, <3>1 DEF Open
    <3> QED BY <3>2
  <2>2. CASE ~relative /\ error # Ok
    <3>1. Ends_("usage", error) /\ scope' = scope
      BY <2>2 DEF Open
    <3> QED BY <3>1, CredentialErrors
  <2>3. CASE ~relative /\ error = Ok
    BY <2>3 DEF Open, Stated
  <2> QED BY <2>1, <2>2, <2>3
<1>2. ASSUME NEW e, e \notin {"invoice", "amount"}, Ends_("usage", e), scope' = scope
      PROVE  Asked' /\ Told'
  <2>1. pc' = "ended"
    BY <1>2, EndsSay
  <2>2. Told'
    BY <1>0, <1>2, EndsSilently
  <2>3. Asked'
    BY <1>0, <1>2, <2>1, AskedStays DEF Early
  <2> QED BY <2>2, <2>3
<1>3. ASSUME pc' = "pick", error = Ok, scope'.envs = Stated.envs.value PROVE Asked'
  <2>1. EnvsGiven'
    BY <1>3, StatedEnvsGiven DEF EnvsGiven
  <2>2. Operation' = Operation /\ IsChange' = IsChange /\ UnitFits(currency)' = UnitFits(currency)
    BY <1>0 DEF Operation, IsChange, UnitFits, PaymentFlags
  <2>3. Targeted' /\ CurrencyRead'
    BY <1>0, <1>3, <2>2 DEF Asked, Targeted, CurrencyRead, Early
  <2> QED BY <2>1, <2>3 DEF Asked
<1> QED BY <1>1, <1>2, <1>3

\* A change without its wallet is refused before anything is asked.
LEMMA PickAsks == PInv /\ Asked /\ Pick => Asked' /\ (Told' \/ pc' # "ended")
<1> SUFFICES ASSUME PInv, Asked, Pick PROVE Asked' /\ (Told' \/ pc' # "ended")
  OBVIOUS
<1>1. pc = "pick" /\ UNCHANGED <<given, scope, target, currency>>
  BY DEF Pick
<1>2. \/ Ends_("usage", "missing wallet")
      \/ pc' = Onward
      \/ pc' = "ask" /\ ~(NeedsTarget /\ IsChange)
  BY DEF Pick, WalletTarget
<1>3. Told' \/ pc' # "ended"
  <2>1. CASE Ends_("usage", "missing wallet")
    <3>1. "missing wallet" \notin {"invoice", "amount"}
      OBVIOUS
    <3> QED BY <1>1, <2>1, <3>1, EndsSilently
  <2>2. CASE pc' = Onward \/ pc' = "ask"
    BY <2>2 DEF Onward
  <2> QED BY <1>2, <2>1, <2>2
<1>4. Operation' = Operation /\ IsChange' = IsChange /\ NeedsTarget' = NeedsTarget
      /\ UnitFits(currency)' = UnitFits(currency)
  BY <1>1 DEF Operation, IsChange, NeedsTarget, UnitFits, PaymentFlags
<1>5. pc' = "ask" => ~(NeedsTarget /\ IsChange)
  BY <1>2, EndsSay DEF Onward
<1>6. Targeted'
  BY <1>1, <1>4, <1>5 DEF Asked, Targeted
<1>7. CurrencyRead' /\ EnvsGiven'
  BY <1>1, <1>4 DEF Asked, CurrencyRead, Early, EnvsGiven
<1> QED BY <1>3, <1>6, <1>7 DEF Asked

\* What is picked of a listing is some, and a wallet command's own wallet only of a read.
LEMMA ChoosingAsks ==
    PInv /\ Asked /\ (AskOrg \/ AskEnv \/ AskWallet) => Asked' /\ (Told' \/ pc' # "ended")
<1> SUFFICES ASSUME PInv, Asked, AskOrg \/ AskEnv \/ AskWallet PROVE Asked' /\ (Told' \/ pc' # "ended")
  OBVIOUS
<1>1. pc = "ask" /\ given' = given /\ currency' = currency
  BY DEF AskOrg, AskEnv, AskWallet
<1>2. \/ pc' = "stop" /\ UNCHANGED <<scope, target>>
      \/ Ends_("usage", "one environment") /\ UNCHANGED <<scope, target>>
      \/ Chosen("org", TRUE) \/ Chosen("env", TRUE) \/ Chosen("wallet", FALSE)
  BY DEF AskOrg, AskEnv, AskWallet
<1>3. CASE pc' = "stop" /\ UNCHANGED <<scope, target>>
  BY <1>1, <1>3, AskedStays DEF Early
<1>4. CASE Ends_("usage", "one environment") /\ UNCHANGED <<scope, target>>
  <2>1. "one environment" \notin {"invoice", "amount"}
    OBVIOUS
  <2>2. Told'
    BY <1>1, <1>4, <2>1, EndsSilently
  <2>3. pc' = "ended"
    BY <1>4, EndsSay
  <2> QED BY <1>1, <1>4, <2>2, <2>3, AskedStays DEF Early
<1>5. CASE Chosen("org", TRUE) \/ Chosen("env", TRUE) \/ Chosen("wallet", FALSE)
  <2>1. \/ pc' = "stop" /\ UNCHANGED <<scope, target>>
        \/ \E choice :
             /\ choice # None
             /\ \/ scope' = [scope EXCEPT !.org = choice] /\ UNCHANGED <<target, pc>>
                \/ scope' = [scope EXCEPT !.envs = <<choice>>] /\ UNCHANGED <<target, pc>>
                \/ /\ pc' = Onward
                   /\ \/ NeedsTarget /\ target' = choice /\ UNCHANGED scope
                      \/ scope' = [scope EXCEPT !.wallet = choice] /\ UNCHANGED target
    BY <1>5, ChosenSays
  <2>2. CASE pc' = "stop" /\ UNCHANGED <<scope, target>>
    BY <1>1, <2>2, AskedStays DEF Early
  <2>3. ASSUME NEW choice, choice # None,
               \/ scope' = [scope EXCEPT !.org = choice] /\ UNCHANGED <<target, pc>>
               \/ scope' = [scope EXCEPT !.envs = <<choice>>] /\ UNCHANGED <<target, pc>>
               \/ /\ pc' = Onward
                  /\ \/ NeedsTarget /\ target' = choice /\ UNCHANGED scope
                     \/ scope' = [scope EXCEPT !.wallet = choice] /\ UNCHANGED target
        PROVE  Asked' /\ pc' # "ended"
    <3>1. /\ pc' # "ended" /\ (pc' = "ask" => target' = target)
          /\ target' = target \/ NeedsTarget
          /\ scope'.envs = scope.envs \/ scope'.envs = <<choice>>
      BY <1>1, <2>3 DEF Onward, PInv, TypeOK
    <3>2. EnvsGiven'
      BY <2>3, <3>1, ShortHolds DEF Asked, EnvsGiven
    <3>3. Operation' = Operation /\ IsChange' = IsChange /\ UnitFits(currency)' = UnitFits(currency)
      BY <1>1 DEF Operation, IsChange, UnitFits, PaymentFlags
    <3>4. CurrencyRead'
      BY <1>1, <3>3 DEF Asked, CurrencyRead, Early
    <3>5. NeedsTarget => Operation.targetsWallet /\ target = None
      BY DEF NeedsTarget
    <3>6. target' # given.target => given.target = None /\ Operation.targetsWallet /\ ~IsChange
      BY <1>1, <3>1, <3>5 DEF Asked, Targeted
    <3>7. pc' = "ask" => ~(NeedsTarget /\ IsChange)'
      BY <1>1, <3>1, <3>3 DEF Asked, Targeted, NeedsTarget
    <3>8. Targeted'
      BY <1>1, <3>3, <3>6, <3>7 DEF Targeted
    <3> QED BY <3>1, <3>2, <3>4, <3>8 DEF Asked
  <2> QED BY <2>1, <2>2, <2>3
<1> QED BY <1>2, <1>3, <1>4, <1>5

\* A shortlist is of the invoice and the currency as they were given.
LEMMA ListWalletsTells == PInv /\ Asked /\ ListWallets => Asked' /\ Told'
<1> SUFFICES ASSUME PInv, Asked, ListWallets PROVE Asked' /\ Told'
  OBVIOUS
<1> DEFINE checked == CheckPayment(PaymentFlags, given.alias)
<1>1. /\ pc = "shortlist" /\ UNCHANGED <<given, scope, target, currency>> /\ given \in Commands
  BY DEF ListWallets, PInv, Staged
<1>2. PaymentFlags.currency = given.payment.currency
  BY <1>1, FlagsInUse DEF Asked, CurrencyRead, Early
<1>3. CASE checked # Fine
  <2>1. Ends_("usage", checked)
    BY <1>3 DEF ListWallets, Fine
  <2>2. checked \notin {"invoice", "amount"}
    BY PaymentErrors
  <2> HIDE DEF checked
  <2>3. Told'
    BY <1>1, <2>1, <2>2, EndsSilently
  <2>4. pc' = "ended"
    BY <2>1, EndsSay
  <2> QED BY <1>1, <2>3, <2>4, AskedStays DEF Early
<1>4. CASE checked = Fine /\ ReadInvoice.network = None
  <2>1. Ends_("usage", "invoice")
    BY <1>4 DEF ListWallets, Fine, ReadInvoice
  <2>2. Truthful("usage", "invoice")
    BY <1>4, InvoiceErrors DEF Truthful
  <2>3. pc' = "ended" /\ Told'
    BY <1>1, <2>1, <2>2, EndsSay, EndsTruthfully
  <2> QED BY <1>1, <2>3, AskedStays DEF Early
<1>5. CASE checked = Fine /\ ReadInvoice.network # None /\ AuthorizeError # Ok
  <2>1. Ends_("auth", AuthorizeError)
    BY <1>5 DEF ListWallets, ReadInvoice
  <2>2. pc' = "ended" /\ Told'
    BY <1>1, <2>1, EndsSay, EndsSilently
  <2> QED BY <1>1, <2>2, AskedStays DEF Early
<1>6. CASE checked = Fine /\ ReadInvoice.network # None /\ AuthorizeError = Ok
  <2>1. \/ Ends_("usage", "one environment")
        \/ Ends_("api", "refused")
        \/ \E listed \in WalletListings :
             Ends_("shortlist", [listed |-> listed, candidates |->
               Candidates(listed, ReadInvoice, given.payment.currency, scope.envs)])
    BY <1>2, <1>6 DEF ListWallets, ReadInvoice
  <2>2. CASE Ends_("usage", "one environment")
    <3>1. pc' = "ended" /\ Told'
      BY <1>1, <2>2, EndsSay, EndsSilently
    <3> QED BY <1>1, <3>1, AskedStays DEF Early
  <2>3. CASE Ends_("api", "refused")
    <3>1. pc' = "ended" /\ Told'
      BY <1>1, <2>3, EndsSay, EndsSilently
    <3> QED BY <1>1, <3>1, AskedStays DEF Early
  <2>4. ASSUME NEW listed \in WalletListings, NEW d,
               d = [listed |-> listed, candidates |->
                     Candidates(listed, ReadInvoice, given.payment.currency, scope.envs)],
               Ends_("shortlist", d)
        PROVE  pc' = "ended" /\ Told'
    <3>1. /\ d.listed = listed
          /\ d.candidates = Candidates(listed, ReadInvoice, given.payment.currency, scope.envs)
      BY <2>4
    <3>2. Truthful("shortlist", d)
      BY <1>6, <3>1 DEF Truthful
    <3> QED BY <1>1, <2>4, <3>2, EndsSay, EndsTruthfully
  <2> QED BY <1>1, <2>1, <2>2, <2>3, <2>4, AskedStays DEF Early
<1> QED BY <1>3, <1>4, <1>5, <1>6

\* A currency that is read fits what was given.
LEMMA FillCurrencyTells == PInv /\ Asked /\ FillCurrency => Asked' /\ (Told' \/ pc' # "ended")
<1> SUFFICES ASSUME PInv, Asked, FillCurrency PROVE Asked' /\ (Told' \/ pc' # "ended")
  OBVIOUS
<1>1. pc = "currency" /\ UNCHANGED <<given, scope, target>> /\ currency = None
  BY DEF FillCurrency, FillsCurrency
<1>2. FillError \notin {"invoice", "amount"}
  BY PaymentErrors, CredentialErrors DEF FillError
<1>3. \/ \E e : e \notin {"invoice", "amount"} /\ Ends_("usage", e) /\ currency' = currency
      \/ Ends_("api", "refused") /\ currency' = currency
      \/ pc' = "reserve" /\ currency' \in Currencies /\ UnitFits(currency')
  <2>1. CASE FillError \notin {Fine, Ok}
    <3>1. Ends_("usage", FillError) /\ currency' = currency
      BY <2>1 DEF FillCurrency
    <3> QED BY <1>2, <3>1
  <2>2. CASE FillError \in {Fine, Ok}
    <3>1. \/ Ends_("api", "refused") /\ UNCHANGED currency
          \/ \E read \in Currencies :
               IF read = None THEN Ends_("usage", "unknown currency") /\ UNCHANGED currency
               ELSE IF ~UnitFits(read) THEN Ends_("usage", "unit of wallet") /\ UNCHANGED currency
               ELSE currency' = read /\ pc' = "reserve" /\ UNCHANGED result
      BY <2>2 DEF FillCurrency
    <3>2. "unknown currency" \notin {"invoice", "amount"} /\ "unit of wallet" \notin {"invoice", "amount"}
      OBVIOUS
    <3> QED BY <3>1, <3>2
  <2> QED BY <2>1, <2>2
<1>4. ASSUME NEW e, e \notin {"invoice", "amount"}, Ends_("usage", e), currency' = currency
      PROVE  pc' = "ended" /\ Told'
  BY <1>1, <1>4, EndsSay, EndsSilently
<1>5. ASSUME Ends_("api", "refused"), currency' = currency
      PROVE  pc' = "ended" /\ Told'
  BY <1>1, <1>5, EndsSay, EndsSilently
<1>6. ASSUME pc' = "reserve", UnitFits(currency') PROVE Asked'
  <2>1. Operation' = Operation /\ IsChange' = IsChange /\ NeedsTarget' = NeedsTarget
    BY <1>1 DEF Operation, IsChange, NeedsTarget
  <2>2. Targeted'
    BY <1>1, <1>6, <2>1 DEF Asked, Targeted
  <2>3. EnvsGiven'
    BY <1>1 DEF Asked, EnvsGiven
  <2>4. given \in Commands /\ given.payment.currency = None
    BY <1>1 DEF PInv, Staged, Asked, CurrencyRead
  <2>5. UnitFits(currency)'
    <3>1. {"amount", "unit", "currency"} \subseteq DOMAIN given.payment
      BY <2>4, CommandsAreLines
    <3>2. /\ PaymentFlags.amount = given.payment.amount /\ PaymentFlags.unit = given.payment.unit
          /\ PaymentFlags'.amount = given.payment.amount /\ PaymentFlags'.unit = given.payment.unit
      BY <1>1, <3>1 DEF PaymentFlags
    <3> HIDE DEF PaymentFlags
    <3> QED BY <1>6, <3>2 DEF UnitFits
  <2>6. CurrencyRead'
    BY <1>1, <1>6, <2>4, <2>5 DEF CurrencyRead, Early
  <2> QED BY <2>2, <2>3, <2>6 DEF Asked
<1> QED BY <1>1, <1>3, <1>4, <1>5, <1>6, AskedStays DEF Early

\* A request is refused for its amount only if no amount is it.
LEMMA BuildTells == PInv /\ Asked /\ Build => Asked' /\ (Told' \/ pc' # "ended")
<1> SUFFICES ASSUME PInv, Asked, Build PROVE Asked' /\ (Told' \/ pc' # "ended")
  OBVIOUS
<1>1. pc = "build" /\ UNCHANGED <<given, scope, target, currency>> /\ given \in Commands
  BY DEF Build, PInv, Staged
<1>2. pc' \in {"ended", "execute"}
  BY EndsSay DEF Build
<1>3. Asked'
  BY <1>1, <1>2, AskedStays DEF Early
<1>4. CASE BuildError = Fine
  BY <1>3, <1>4 DEF Build
<1>5. CASE BuildError # Fine
  <2>1. Ends_("usage", BuildError)
    BY <1>5 DEF Build
  <2>2. BuildError = Body.error \/ BuildError \notin {"invoice", "amount"}
    <3>1. CheckPayload(Operation, given.alias, Body.body, scope) \notin {"invoice", "amount"}
      BY OtherErrors
    <3>2. PathError(Operation, target, scope) \notin {"invoice", "amount"}
      BY OtherErrors
    <3>3. QueryError(Operation, given.overrides, scope) \notin {"invoice", "amount"}
      BY OtherErrors
    <3>4. InvoiceFlagsError(IF HasBody THEN Body.body ELSE <<>>) \notin {"invoice", "amount"}
      BY OtherErrors
    <3> QED BY <3>1, <3>2, <3>3, <3>4 DEF BuildError
  <2>3. Truthful("usage", BuildError)
    BY <1>1, <2>2, AmountErrors DEF Truthful
  <2> QED BY <1>1, <1>3, <2>1, <2>3, EndsTruthfully
<1> QED BY <1>3, <1>4, <1>5

\* A conversion is what was computed of the amount and the price that were read.
LEMMA ConvertTells == PInv /\ Asked /\ Convert_ => Asked' /\ Told'
<1> SUFFICES ASSUME PInv, Asked, Convert_ PROVE Asked' /\ Told'
  OBVIOUS
<1>1. pc = "price" /\ UNCHANGED <<given, scope, target, currency>> /\ given.kind = "convert"
  BY DEF Convert_, PInv, Staged
<1> DEFINE unit == given.payment.unit
           amount == Parse(given.payment.amount, unit)
           converted == Convert(Rate(given.price), amount, unit)
<1>2. \/ Ends_("usage", "amount")
      \/ \E detail : Ends_("api", detail)
      \/ Ends_("usage", "overflow")
      \/ /\ amount # Refused /\ RateIsValid(given.price) /\ converted = Panics
         /\ Ends_("panicked", "division by zero")
      \/ /\ amount # Refused /\ RateIsValid(given.price) /\ converted \notin {Refused, Panics}
         /\ Ends_("converted", converted)
  BY DEF Convert_
<1>3. Truthful("usage", "amount")
  BY <1>1 DEF Truthful
<1>4. ASSUME amount # Refused, RateIsValid(given.price), converted \notin {Refused, Panics}
      PROVE  Truthful("converted", converted)
  BY <1>1, <1>4 DEF Truthful
<1>6. ASSUME amount # Refused, RateIsValid(given.price), converted = Panics
      PROVE  Truthful("panicked", "division by zero")
  BY <1>1, <1>6 DEF Truthful
<1> HIDE DEF converted, amount, unit
<1>5. pc' = "ended" /\ Told'
  <2>1. CASE Ends_("usage", "amount")
    BY <1>1, <1>3, <2>1, EndsSay, EndsTruthfully
  <2>2. CASE \E detail : Ends_("api", detail)
    BY <1>1, <2>2, EndsSay, EndsSilently
  <2>3. CASE Ends_("usage", "overflow")
    BY <1>1, <2>3, EndsSay, EndsSilently
  <2>4. CASE /\ amount # Refused /\ RateIsValid(given.price) /\ converted = Panics
             /\ Ends_("panicked", "division by zero")
    BY <1>1, <1>6, <2>4, EndsSay, EndsTruthfully
  <2>5. CASE /\ amount # Refused /\ RateIsValid(given.price) /\ converted \notin {Refused, Panics}
             /\ Ends_("converted", converted)
    BY <1>1, <1>4, <2>5, EndsSay, EndsTruthfully
  <2> QED BY <1>2, <2>1, <2>2, <2>3, <2>4, <2>5
<1> QED BY <1>1, <1>5, AskedStays DEF Early

\* An end that says nothing of an amount, an invoice or a shortlist.
EndsQuietly ==
    \E kind, detail :
      /\ Ends_(kind, detail)
      /\ kind \in {"usage", "converted", "panicked", "shortlist"} => kind = "usage" /\ detail \notin {"invoice", "amount"}

\* An end of another kind, or for another mistake.
LEMMA QuietEnds ==
    /\ \A kind, detail : Ends_(kind, detail) /\ kind \notin {"usage", "converted", "panicked", "shortlist"} => EndsQuietly
    /\ \A detail : Ends_("usage", detail) /\ detail \notin {"invoice", "amount"} => EndsQuietly
BY DEF EndsQuietly

\* The steps that read no amount, no invoice and no wallets say nothing of them.
LEMMA OthersTell ==
    PInv /\ Asked
      /\ \/ SkipOpen \/ AskCredential \/ Exchange \/ StopAsking \/ NoShortlist \/ NoFill \/ Reserve
         \/ Describe \/ Send \/ SendCheckout \/ RefuseSecret \/ CreateProfile \/ Discover \/ Report
      => Asked' /\ (Told' \/ pc' # "ended")
<1> SUFFICES ASSUME PInv, Asked,
               \/ SkipOpen \/ AskCredential \/ Exchange \/ StopAsking \/ NoShortlist \/ NoFill \/ Reserve
               \/ Describe \/ Send \/ SendCheckout \/ RefuseSecret \/ CreateProfile \/ Discover \/ Report
             PROVE Asked' /\ (Told' \/ pc' # "ended")
  OBVIOUS
<1>1. UNCHANGED <<given, scope, target, currency>>
  BY DEF SkipOpen, AskCredential, Exchange, StopAsking, NoShortlist, NoFill, Reserve, Describe, Send,
         SendCheckout, RefuseSecret, CreateProfile, Discover, Report
<1>2. \/ pc' # "ended" /\ (pc' \in Early => pc \in Early) /\ (pc' = "ask" => pc = "ask")
      \/ EndsQuietly
  <2>1. CASE SkipOpen \/ NoShortlist \/ NoFill
    BY <2>1 DEF SkipOpen, NoShortlist, NoFill, Early
  <2>2. CASE AskCredential
    BY <2>2, QuietEnds DEF AskCredential, Early
  <2>3. CASE Exchange
    BY <2>3, QuietEnds DEF Exchange, Early
  <2>4. CASE StopAsking
    BY <2>4, QuietEnds DEF StopAsking, Onward, Early
  <2>5. CASE Reserve
    BY <2>5, QuietEnds DEF Reserve, Ready, Early
  <2>6. CASE Describe \/ RefuseSecret
    BY <2>6, QuietEnds DEF Describe, RefuseSecret
  <2>7. CASE Send
    BY <2>7, QuietEnds DEF Send
  <2>8. CASE SendCheckout
    BY <2>8, QuietEnds DEF SendCheckout
  <2>9. CASE CreateProfile
    BY <2>9, CredentialErrors, QuietEnds DEF CreateProfile
  <2>10. CASE Report
    BY <2>10, QuietEnds DEF Report
  <2>11. CASE Discover
    BY <2>11, CredentialErrors, QuietEnds DEF Discover, Ok
  <2> QED BY <2>1, <2>2, <2>3, <2>4, <2>5, <2>6, <2>7, <2>8, <2>9, <2>10, <2>11
<1>3. ASSUME NEW kind, NEW detail, Ends_(kind, detail),
             kind \in {"usage", "converted", "panicked", "shortlist"} => kind = "usage" /\ detail \notin {"invoice", "amount"}
      PROVE  pc' = "ended" /\ Told'
  BY <1>1, <1>3, EndsSay, EndsSilently
<1> QED BY <1>1, <1>2, <1>3, AskedStays DEF Early, EndsQuietly

\* Every step keeps both.
LEMMA StepAsks == PInv /\ Asked /\ Told /\ [Next]_vars => PInv' /\ Asked' /\ Told'
<1> SUFFICES ASSUME PInv, Asked, Told, [Next]_vars PROVE PInv' /\ Asked' /\ Told'
  OBVIOUS
<1>1. PInv'
  BY StepKeeps
<1>2. ASSUME Told' \/ pc' # "ended" PROVE Told'
  BY <1>1, <1>2, GoingOnIsTruthful DEF PInv
<1>3. CASE Open \/ Pick \/ AskOrg \/ AskEnv \/ AskWallet
  BY <1>1, <1>2, <1>3, OpenAsks, PickAsks, ChoosingAsks
<1>4. CASE ListWallets \/ FillCurrency \/ Build \/ Convert_
  BY <1>1, <1>2, <1>4, ListWalletsTells, FillCurrencyTells, BuildTells, ConvertTells
<1>5. CASE \/ SkipOpen \/ AskCredential \/ Exchange \/ StopAsking \/ NoShortlist \/ NoFill \/ Reserve
           \/ Describe \/ Send \/ SendCheckout \/ RefuseSecret \/ CreateProfile \/ Discover \/ Report
  BY <1>1, <1>2, <1>5, OthersTell
<1>6. CASE Ended \/ UNCHANGED vars
  <2>1. UNCHANGED <<given, pc, scope, target, currency, result>>
    BY <1>6 DEF Ended, vars
  <2>2. Asked'
    BY <2>1, AskedStays
  <2>3. Told'
    BY <2>1, TruthStays DEF Told
  <2> QED BY <1>1, <2>2, <2>3
<1> QED BY <1>3, <1>4, <1>5, <1>6 DEF Next

\* The whole preparation picks only what was left out, and ends as it says.
THEOREM AskedAndTold == Spec => [](Asked /\ Told)
<1>1. Init => PInv /\ Asked /\ Told
  BY InitKeeps, InitAsks
<1>2. PInv /\ Asked /\ Told /\ [Next]_vars => (PInv /\ Asked /\ Told)'
  BY StepAsks
<1> QED BY <1>1, <1>2, PTL DEF Spec

-----------------------------------------------------------------------------
(* What follows: when *)

\* Where nobody is asked, only a payment without its currency or its wallet has used a credential
\* before its request is built and sent.
Reticent ==
    given.kind = "api" /\ ~given.canAsk /\ contacts # <<>> /\ (pc # "ended" \/ result.kind = "usage") =>
      IsFriendlyPayment /\ (given.payment.currency = None \/ scope.wallet = None)

\* A step of a command that uses no credential.
LEMMA ReticenceStays ==
    ASSUME Reticent, pc # "ended" \/ UNCHANGED <<pc, result>>, UNCHANGED <<given, contacts, scope>>
    PROVE  Reticent'
BY DEF Reticent, IsFriendlyPayment, Operation

\* A step at which somebody is asked, or of another kind of command.
LEMMA OthersAreReticent ==
    ASSUME given' = given, given.kind # "api" \/ given.canAsk
    PROVE  Reticent'
BY DEF Reticent

\* Every step keeps it.
LEMMA StepIsReticent == PInv /\ Asked /\ Reticent /\ [Next]_vars => Reticent'
<1> SUFFICES ASSUME PInv, Asked, Reticent, [Next]_vars PROVE Reticent'
  OBVIOUS
<1>1. CASE \/ SkipOpen \/ Pick \/ StopAsking \/ NoShortlist \/ NoFill \/ Reserve \/ Build \/ Describe
           \/ RefuseSecret \/ CreateProfile \/ Report
  <2>1. pc # "ended" /\ UNCHANGED <<given, contacts, scope>>
    BY <1>1 DEF SkipOpen, Pick, StopAsking, NoShortlist, NoFill, Reserve, Build, Describe, RefuseSecret,
                CreateProfile, Report
  <2> QED BY <2>1, ReticenceStays
<1>2. CASE Open
  BY <1>2 DEF Open, PInv, Staged, Reticent
<1>3. CASE Convert_ \/ Discover
  <2>1. given' = given /\ given.kind # "api"
    BY <1>3 DEF Convert_, Discover, PInv, Staged
  <2> QED BY <2>1, OthersAreReticent
<1>4. CASE AskCredential \/ AskOrg \/ Exchange \/ AskEnv \/ AskWallet
  <2>1. given' = given /\ given.canAsk
    BY <1>4 DEF AskCredential, AskOrg, Exchange, AskEnv, AskWallet, PInv, Staged
  <2> QED BY <2>1, OthersAreReticent
<1>5. CASE ListWallets
  <2>1. IsFriendlyPayment /\ scope.wallet = None /\ UNCHANGED <<given, scope>>
    BY <1>5 DEF ListWallets, Shortlists
  <2> QED BY <2>1 DEF Reticent, IsFriendlyPayment, Operation
<1>6. CASE FillCurrency
  <2>1. IsFriendlyPayment /\ currency = None /\ UNCHANGED <<given, scope>>
    BY <1>6 DEF FillCurrency, FillsCurrency
  <2>2. given.payment.currency = None
    BY <2>1 DEF Asked, CurrencyRead
  <2> QED BY <2>1, <2>2 DEF Reticent, IsFriendlyPayment, Operation
<1>7. CASE Send \/ SendCheckout
  <2>1. pc' = "ended" /\ result'.kind # "usage"
    <3>1. \E kind \in {"auth", "sent", "api"}, detail \in {None, "refused", "token", AuthorizeError} : Ends_(kind, detail)
      BY <1>7 DEF Send, SendCheckout
    <3> QED BY <3>1, EndsSay
  <2> QED BY <2>1 DEF Reticent
<1>8. CASE Ended \/ UNCHANGED vars
  <2>1. UNCHANGED <<given, pc, scope, contacts, result>>
    BY <1>8 DEF Ended, vars
  <2> QED BY <2>1, ReticenceStays
<1> QED BY <1>1, <1>2, <1>3, <1>4, <1>5, <1>6, <1>7, <1>8 DEF Next

\* Off a terminal no credential is used for a mistake that shows without the wallet, or for any other but
\* of a payment without a currency or a wallet; no file is taken for what is only described, and a
\* description shows nothing by a private name, or within one.
THEOREM TooSoonNever == Spec => []NothingTooSoon
<1>1. Init => PInv /\ Asked /\ Told /\ Reticent
  BY InitKeeps, InitAsks DEF Init, Reticent
<1>2. PInv /\ Asked /\ Told /\ Reticent /\ [Next]_vars => (PInv /\ Asked /\ Told /\ Reticent)'
  BY StepAsks, StepIsReticent
<1>3. PInv /\ Reticent => NothingTooSoon
  BY ReservedHolds, PrivateHolds DEF NothingTooSoon, PInv, Reticent, RefusalsAskNothing
<1> QED BY <1>1, <1>2, <1>3, PTL DEF Spec

-----------------------------------------------------------------------------
(* What follows: what the request asks for *)

\* A change acts on the wallet its command line names.
LEMMA TargetHolds == PInv /\ Asked => ChangesNamedWallet
<1> SUFFICES ASSUME PInv, Asked, request # None, IsChange, Operation.targetsWallet
             PROVE  given.target # None /\ request.path.target = given.target
  BY DEF ChangesNamedWallet
<1>1. target = given.target
  BY DEF Asked, Targeted
<1>2. request.path.target = target
  BY RequestParts DEF Path
<1>3. Operation.target # None
  BY OperationsAreRegistered DEF PInv, Staged, Operation
<1>4. target # None
  BY <1>3, RequestParts, BuildChecks DEF PathError, Fine
<1> QED BY <1>1, <1>2, <1>4

\* What a friendly payment's body is.
LEMMA PaymentBuilt ==
    ASSUME PInv, request # None, IsFriendlyPayment
    PROVE  /\ given \in Commands /\ HasBody
           /\ scope.wallet # None /\ currency # None /\ BodyError(PaymentFlags, given.alias) = Fine
           /\ request.body = IF given.alias = "receive" THEN ReceiveBody(PaymentFlags, scope.wallet)
                             ELSE SendBody(PaymentFlags, scope.wallet)
<1>1. given \in Commands /\ HasBody
  BY DEF PInv, Staged, HasBody, IsFriendlyPayment
<1>2. request.body = Body.body /\ Body.error = Fine
  BY RequestParts, BuildChecks
<1>3. Body = Payment(PaymentFlags, given.alias, scope)
  BY DEF Body, IsFriendlyPayment
<1>4. PaymentFlags.currency = currency
  BY <1>1, FlagsInUse
<1>5. scope.wallet # None /\ currency # None /\ BodyError(PaymentFlags, given.alias) = Fine
  BY <1>2, <1>3, <1>4 DEF Payment, Fine
<1>6. request.body = IF given.alias = "receive" THEN ReceiveBody(PaymentFlags, scope.wallet)
                     ELSE SendBody(PaymentFlags, scope.wallet)
  BY <1>2, <1>3 DEF Payment
<1> QED BY <1>1, <1>5, <1>6

\* A payment's body names the wallet in use, and its amounts are the one that was read.
LEMMA PaymentHas ==
    ASSUME PInv, request # None, IsFriendlyPayment
    PROVE  /\ request.body["wallet_id"] = scope.wallet
           /\ \A a \in BodyAmounts(request.body) :
                a = PaymentAmount(PaymentFlags) /\ PaymentFlags.amount.given
           /\ Has(request.body, "quote_id") => given.payment.quote # None
<1>0. given \in Commands /\ scope.wallet # None
  BY PaymentBuilt
<1> DEFINE flags == PaymentFlags
           paid == PaymentAmount(flags)
<1>1. paid # None => flags.amount.given
  BY DEF PaymentAmount
<1>2. flags.quote = given.payment.quote
  BY <1>0, FlagsInUse
<1> HIDE DEF flags, paid
<1>3. CASE given.alias = "receive"
  <2>1. request.body = ReceiveBody(flags, scope.wallet)
    BY <1>3, PaymentBuilt DEF flags
  <2> DEFINE body == [id |-> NewId(flags.id), wallet_id |-> scope.wallet, payment_kind |-> flags.kind,
                      amount |-> paid,
                      currency |-> IF flags.amount.given THEN None ELSE flags.currency,
                      expiration |-> flags.expiration, description |-> flags.description,
                      quote_id |-> flags.quote, metadata |-> IF flags.metadata = <<>> THEN None ELSE flags.metadata]
  <2>2. request.body = Present(body)
    BY <2>1 DEF ReceiveBody, paid
  <2>3. /\ body.wallet_id = scope.wallet /\ "wallet_id" \in DOMAIN body /\ "data" \notin DOMAIN body
        /\ body.amount = paid /\ body.quote_id = flags.quote
    OBVIOUS
  <2> HIDE DEF body
  <2>4. /\ \A f : f \in DOMAIN request.body => f \in DOMAIN body /\ body[f] # None /\ request.body[f] = body[f]
        /\ \A f \in DOMAIN body : body[f] # None => f \in DOMAIN request.body
    BY <2>2 DEF Present
  <2>5. request.body["wallet_id"] = scope.wallet
    BY <1>0, <2>3, <2>4
  <2>6. Has(request.body, "quote_id") => given.payment.quote # None
    BY <1>2, <2>3, <2>4 DEF Has
  <2>7. \A a \in BodyAmounts(request.body) : a = paid /\ flags.amount.given
    BY <1>1, <2>3, <2>4 DEF BodyAmounts, Has
  <2> QED BY <2>5, <2>6, <2>7 DEF flags, paid
<1>4. CASE given.alias # "receive"
  <2>1. request.body = SendBody(flags, scope.wallet)
    BY <1>4, PaymentBuilt DEF flags
  <2> DEFINE data == [payment_request |-> flags.invoice, address |-> flags.address,
                      amount |-> paid,
                      max_fee |-> IF flags.maxFee.given
                                  THEN AmountIn(flags.maxFee, flags.feeUnit, "msats") ELSE None,
                      description |-> flags.description]
             body == [id |-> NewId(flags.id), wallet_id |-> scope.wallet,
                      type |-> IF flags.invoice # None THEN "bolt11" ELSE "onchain", currency |-> flags.currency,
                      data |-> Present(data),
                      quote_id |-> flags.quote, metadata |-> IF flags.metadata = <<>> THEN None ELSE flags.metadata]
  <2>2. request.body = Present(body)
    BY <2>1 DEF SendBody, paid
  <2>3. /\ body.wallet_id = scope.wallet /\ "wallet_id" \in DOMAIN body /\ "amount" \notin DOMAIN body
        /\ body.data = Present(data) /\ body.quote_id = flags.quote /\ data.amount = paid
    OBVIOUS
  <2> HIDE DEF body, data
  <2>4. /\ \A f : f \in DOMAIN request.body => f \in DOMAIN body /\ body[f] # None /\ request.body[f] = body[f]
        /\ \A f \in DOMAIN body : body[f] # None => f \in DOMAIN request.body
    BY <2>2 DEF Present
  <2>5. request.body["wallet_id"] = scope.wallet
    BY <1>0, <2>3, <2>4
  <2>6. Has(request.body, "quote_id") => given.payment.quote # None
    BY <1>2, <2>3, <2>4 DEF Has
  <2>8. \A f : f \in DOMAIN Present(data) => f \in DOMAIN data /\ data[f] # None /\ Present(data)[f] = data[f]
    BY DEF Present
  <2>7. \A a \in BodyAmounts(request.body) : a = paid /\ flags.amount.given
    <3>1. "amount" \notin DOMAIN request.body
      BY <2>3, <2>4
    <3>2. ASSUME NEW f \in {"data"} \cap DOMAIN request.body PROVE request.body[f] = Present(data)
      BY <2>3, <2>4
    <3>3. "amount" \in DOMAIN Present(data) => Present(data).amount = paid /\ paid # None
      BY <2>3, <2>8
    <3> QED BY <1>1, <3>1, <3>2, <3>3 DEF BodyAmounts, Has
  <2> QED BY <2>5, <2>6, <2>7 DEF flags, paid
<1> QED BY <1>3, <1>4

\* The wallet in use is one that was named, or was picked.
LEMMA WalletInUse ==
    ASSUME PInv, Opened, scope.wallet # None
    PROVE  /\ scope.wallet \in {given.flags.wallet, given.env.wallet} \/ "wallet" \in questions
           /\ given.flags.wallet # None => scope.wallet = given.flags.wallet
<1>1. scope.wallet = Stated.wallet.value \/ (Stated.wallet.value = None /\ "wallet" \in questions)
  BY DEF PInv, Steady
<1>2. /\ Stated.wallet.value \in {given.flags.wallet, given.env.wallet, None}
      /\ given.flags.wallet # None => Stated.wallet.value = given.flags.wallet
  BY DEF Stated, Scope, FlagOr, Ambient, Sourced
<1> QED BY <1>1, <1>2

\* A friendly payment spends from it.
LEMMA SpendsHolds == PInv => SpendsFromNamedWallet
<1> SUFFICES ASSUME PInv, request # None, IsFriendlyPayment
             PROVE  request.body["wallet_id"] \in {given.flags.wallet, given.env.wallet} \/ "wallet" \in questions
  BY DEF SpendsFromNamedWallet
<1>1. Opened /\ scope.wallet # None /\ request.body["wallet_id"] = scope.wallet
  BY RequestParts, PaymentBuilt, PaymentHas
<1> QED BY <1>1, WalletInUse

\* What a body that was built was checked for.
LEMMA BodyIsChecked ==
    ASSUME PInv, request # None
    PROVE  /\ Operation.walletInBody => scope.wallet \in {None, request.body["wallet_id"]}
           /\ Operation.name = "create_wallet" => scope.envs \in {<<>>, <<request.body["environment_id"]>>}
           /\ Operation.payment /\ HasBody /\ IsUsd(request.body) => Has(request.body, "quote_id")
<1> DEFINE body == request.body
<1>1. given \in Commands /\ Body.error = Fine /\ body = Body.body
      /\ (HasBody => CheckPayload(Operation, given.alias, body, scope) = Fine)
  BY RequestParts, BuildChecks DEF PInv, Staged
<1>2. Operation.walletInBody \/ Operation.name = "create_wallet" => Operation.needsBody
  BY <1>1, OperationsAreRegistered DEF Operation
<1>3. ~HasBody => Body.error = IF Operation.needsBody THEN "data" ELSE Fine
  BY DEF Body, HasBody
<1>4. Operation.walletInBody \/ Operation.name = "create_wallet" => HasBody
  BY <1>1, <1>2, <1>3 DEF Fine
<1> HIDE DEF body
<1>5. WalletError(body, scope) = Fine => scope.wallet \in {None, body["wallet_id"]}
  BY DEF WalletError, Fine
<1>6. EnvironmentError(body, scope) = Fine => scope.envs \in {<<>>, <<body["environment_id"]>>}
  BY DEF EnvironmentError, Fine
<1>7. PaymentPayloadError(body, given.alias) = Fine /\ IsUsd(body) => Has(body, "quote_id")
  BY DEF PaymentPayloadError, Fine
<1>8. Operation.walletInBody => WalletError(body, scope) = Fine
  BY <1>1, <1>4 DEF CheckPayload, Fine
<1>9. Operation.name = "create_wallet" => EnvironmentError(body, scope) = Fine
  BY <1>1, <1>4 DEF CheckPayload, Fine
<1>10. Operation.payment /\ HasBody => PaymentPayloadError(body, given.alias) = Fine
  BY <1>1 DEF CheckPayload, Fine
<1> QED BY <1>5, <1>6, <1>7, <1>8, <1>9, <1>10 DEF body

\* A request is of what the flags name.
LEMMA FlagsHold == PInv => RequestNamesTheFlags
<1> SUFFICES ASSUME PInv, request # None PROVE RequestNamesTheFlags
  BY DEF RequestNamesTheFlags
<1>1. Opened
  BY RequestParts
<1>2. /\ request.path.org \in {None, scope.org} /\ request.path.wallet \in {None, scope.wallet}
      /\ request.path.env = IF "environment" \in Operation.path THEN scope.envs[1] ELSE None
  BY RequestParts DEF Path
<1>3. given.flags.org # None => request.path.org \in {None, given.flags.org}
  BY <1>1, <1>2, ScopeInUse DEF Stated, Scope, FlagOr, Sourced
<1>4. ASSUME given.flags.wallet # None
      PROVE  /\ request.path.wallet \in {None, given.flags.wallet}
             /\ Operation.walletInBody => request.body["wallet_id"] = given.flags.wallet
             /\ \A p \in ToSet(request.query) : p[1] = "wallet" => p[2] = given.flags.wallet
  <2>1. Stated.wallet.value = given.flags.wallet
    BY <1>4 DEF Stated, Scope, FlagOr, Sourced
  <2>2. scope.wallet = given.flags.wallet
    BY <1>1, <1>4, <2>1 DEF PInv, Steady
  <2> QED BY <1>2, <1>4, <2>2, BodyIsChecked, ScopePairs
<1>5. ASSUME given.flags.envs # <<>>
      PROVE  /\ request.path.env \in {None, given.flags.envs[1]}
             /\ Operation.name = "create_wallet" => given.flags.envs = <<request.body["environment_id"]>>
             /\ \A p \in ToSet(request.query) : p[1] = "env" => p[2] \in ToSet(given.flags.envs)
  <2>1. Stated.envs.value = given.flags.envs
    BY <1>5 DEF Stated, Scope
  <2>2. scope.envs = given.flags.envs
    BY <1>1, <1>5, <2>1 DEF PInv, Steady
  <2> QED BY <1>2, <1>5, <2>2, BodyIsChecked, ScopePairs
<1> QED BY <1>3, <1>4, <1>5 DEF RequestNamesTheFlags

\* The paging of a query is the command's own.
LEMMA PagingHolds == PInv => AskedPagingIsKept
<1> DEFINE paging == {p \in ToSet(request.query) : p[1] \in {"pagination", "offset"}}
           asked == {p \in ToSet(given.filters \o given.overrides) : p[1] \in {"pagination", "offset"}}
           scoped == ToSet(ScopeFilters(Operation, scope))
           own == scoped \cup ToSet(given.filters) \cup ToSet(given.overrides)
           cursor == <<"pagination", "cursor">>
<1> SUFFICES ASSUME PInv, request # None, "pagination" \in Operation.filters
             PROVE  /\ paging = IF asked = {} THEN {cursor} ELSE asked
                    /\ (\E p \in asked : p[1] = "offset") => Mode(request.query) = "offset"
  BY DEF AskedPagingIsKept
<1>1. IsSequence(scope.envs) /\ IsSequence(given.filters) /\ IsSequence(given.overrides)
  BY CommandsAreLines DEF PInv, Staged, Steady, IsSequence
<1>2. ToSet(given.filters \o given.overrides) = ToSet(given.filters) \cup ToSet(given.overrides)
  BY <1>1, JoinedHolds
<1>3. \A p \in scoped : p[1] \notin {"pagination", "offset"}
  BY <1>1, ScopeFiltersHold
<1>4. asked = {p \in own : p[1] \in {"pagination", "offset"}}
  BY <1>2, <1>3
<1>5. ToSet(request.query) = own \cup (IF ~\E p \in own : p[1] \in {"pagination", "offset"} THEN {cursor} ELSE {})
  <2> HIDE DEF own, cursor
  <2>1. own = ToSet(ScopeFilters(Operation, scope)) \cup ToSet(given.filters) \cup ToSet(given.overrides)
    BY DEF own
  <2>2. request.query = Query(Operation, given.filters, given.overrides, scope)
    BY RequestParts
  <2> QED BY <1>1, <2>1, <2>2, QueryHolds DEF cursor
<1>6. cursor[1] = "pagination"
  OBVIOUS
<1> HIDE DEF own, cursor
<1>7. paging = IF asked = {} THEN {cursor} ELSE asked
  BY <1>4, <1>5, <1>6
<1>8. ASSUME NEW p \in asked, p[1] = "offset" PROVE Mode(request.query) = "offset"
  <2>1. p \in ToSet(request.query)
    BY <1>4, <1>5
  <2> QED BY <1>8, <2>1 DEF Mode
<1> QED BY <1>7, <1>8

-----------------------------------------------------------------------------
(* What follows: money *)

\* What a payment's body has an amount of.
LEMMA AmountPaid ==
    ASSUME PInv, request # None, IsFriendlyPayment, NEW a \in BodyAmounts(request.body)
    PROVE  /\ given.payment.amount.given
           /\ a.amount = Parse(given.payment.amount, PaidUnit) /\ a.amount # Refused
           /\ a.currency = CurrencyOf(PaidUnit)
<1>1. given \in Commands /\ BodyError(PaymentFlags, given.alias) = Fine
  BY PaymentBuilt
<1>2. a = PaymentAmount(PaymentFlags) /\ PaymentFlags.amount.given
  BY PaymentHas
<1>3. given.payment.amount.given
  BY <1>1, <1>2, FlagsInUse
<1>4. a = [amount |-> Parse(given.payment.amount, PaidUnit), currency |-> CurrencyOf(PaidUnit)]
  BY <1>1, <1>2, FlagsInUse DEF PaymentAmount, AmountIn, PaidUnit
<1>5. a.amount # Refused
  BY <1>1, <1>2 DEF BodyError, Fine
<1> QED BY <1>3, <1>4, <1>5

\* An amount is paid in a unit there is.
LEMMA PaidUnitIs ==
    ASSUME PInv, currency # None
    PROVE  PaidUnit \in Units /\ given.payment.amount \in Decimals
<1>1. given \in Commands /\ currency \in {"btc", "usd"}
  BY DEF PInv, Staged, TypeOK
<1>2. given.payment.unit \in Units \cup {None} /\ given.payment.amount \in Decimals
  BY <1>1, AmountsAreDecimals
<1>3. BaseUnit(currency) \in Units
  BY <1>1 DEF BaseUnit, Units, BtcUnits, UsdUnits
<1> QED BY <1>2, <1>3 DEF PaidUnit

\* A payment in its wallet's currency.
LEMMA CurrencyHolds == PInv /\ Asked => PaymentInItsCurrency
<1> SUFFICES ASSUME PInv, Asked, request # None, IsFriendlyPayment
             PROVE  /\ given.payment.currency = None =>
                         \A a \in BodyAmounts(request.body) :
                           a.currency = currency /\ (a.currency = "usd" => given.payment.unit # None)
                    /\ Field(request.body, "currency") = "usd" => given.payment.quote # None
  BY DEF PaymentInItsCurrency
<1>1. given \in Commands /\ HasBody /\ currency \in {"btc", "usd"} /\ currency # None
  BY PaymentBuilt DEF PInv, TypeOK
<1>2. ASSUME given.payment.currency = None, NEW a \in BodyAmounts(request.body)
      PROVE  a.currency = currency /\ (a.currency = "usd" => given.payment.unit # None)
  <2>1. UnitFits(currency)
    BY <1>1, <1>2 DEF Asked, CurrencyRead
  <2>2. given.payment.amount.given /\ a.currency = CurrencyOf(PaidUnit)
    BY AmountPaid
  <2>3. IF given.payment.unit = None THEN currency # "usd" ELSE CurrencyOf(given.payment.unit) = currency
    BY <1>1, <2>1, <2>2, FlagsInUse DEF UnitFits
  <2>4. CASE given.payment.unit = None
    BY <1>1, <2>2, <2>3, <2>4 DEF PaidUnit, BaseUnit, CurrencyOf, BtcUnits
  <2>5. CASE given.payment.unit # None
    BY <2>2, <2>3, <2>5 DEF PaidUnit
  <2> QED BY <2>4, <2>5
<1>3. ASSUME Field(request.body, "currency") = "usd" PROVE given.payment.quote # None
  <2>1. Operation.payment
    BY <1>1, OperationsAreRegistered DEF IsFriendlyPayment, Operation
  <2>2. IsUsd(request.body)
    BY <1>3 DEF IsUsd
  <2>3. Has(request.body, "quote_id")
    BY <1>1, <2>1, <2>2, BodyIsChecked
  <2> QED BY <2>3, PaymentHas
<1> QED BY <1>2, <1>3

\* A payment is of exactly what was asked for.
LEMMA AmountsHold == PInv /\ Told => AmountsAreExact
<1> SUFFICES ASSUME PInv, Told, given.kind = "api", IsFriendlyPayment, given.payment.amount.given, currency # None
             PROVE  /\ request # None =>
                         \A a \in BodyAmounts(request.body) : IsExactly(a.amount, given.payment.amount, PaidUnit)
                    /\ result.kind = "usage" /\ given.payment.amount.decimal =>
                         (result.detail = "amount" =>
                            ~\E n \in 0..MaxAmount : IsExactly(n, given.payment.amount, PaidUnit))
  BY DEF AmountsAreExact, PaidUnit
<1>1. PaidUnit \in Units /\ given.payment.amount \in Decimals
  BY PaidUnitIs
<1>2. ASSUME request # None, NEW a \in BodyAmounts(request.body)
      PROVE  IsExactly(a.amount, given.payment.amount, PaidUnit)
  BY <1>1, <1>2, AmountPaid, ReadExactly
<1>3. ASSUME result.kind = "usage", given.payment.amount.decimal, result.detail = "amount"
      PROVE  ~\E n \in 0..MaxAmount : IsExactly(n, given.payment.amount, PaidUnit)
  <2>1. Parse(given.payment.amount, PaidUnit) = Refused
    BY <1>3 DEF Told, Truthful
  <2> QED BY <1>1, <1>3, <2>1, ReadExactly
<1> QED BY <1>2, <1>3

\* A conversion is the nearest whole unit.
LEMMA ConvertedHolds == PInv /\ Told => ConvertedToNearest
<1> DEFINE fits == CurrencyOf(given.payment.unit) = "usd" => PriceFits(Rate(given.price))
<1> SUFFICES ASSUME PInv, Told, result.kind \in {"converted", "panicked"}, fits PROVE ConvertedToNearest
  BY DEF ConvertedToNearest
<1>1. /\ RateIsValid(given.price) /\ given.kind = "convert" /\ given \in Commands
      /\ Parse(given.payment.amount, given.payment.unit) # Refused
      /\ (IF result.kind = "panicked" THEN Panics ELSE result.detail)
           = Convert(Rate(given.price), Parse(given.payment.amount, given.payment.unit), given.payment.unit)
      /\ result.kind = "converted" => result.detail # Refused
  BY DEF Told, Truthful, PInv, Staged
<1>2. PICK unit \in Units : unit = given.payment.unit
  BY <1>1, AmountsAreDecimals
<1> DEFINE rate == Rate(given.price)
<1>3. rate.mantissa \in Nat /\ rate.scale \in Nat /\ rate.mantissa > 0
  <2> DEFINE price == given.price
  <2>1. price.whole \in Nat /\ price.digits \in Seq(0..9)
    BY <1>1, AmountsAreDecimals
  <2>2. rate = Rate(price) /\ rate.mantissa \in 1..MaxProduct /\ MaxProduct \in Nat
    BY <1>1, WidthsAreNatural DEF RateIsValid
  <2> HIDE DEF price, rate
  <2> QED BY <2>1, <2>2, RateIs
<1>4. PICK amount \in Nat : amount = Parse(given.payment.amount, given.payment.unit)
  <2>1. given.payment.amount \in Decimals
    BY <1>1, AmountsAreDecimals
  <2>2. Parse(given.payment.amount, given.payment.unit) \in 0..MaxAmount
    BY <1>1, <1>2, <2>1, ReadExactly
  <2> QED BY <2>2
<1>5. CurrencyOf(unit) = "usd" => PriceFits(rate)
  BY <1>2
<1> HIDE DEF rate, fits
<1>6. PICK usdNum, usdDen, btcNum, btcDen :
        /\ usdNum = amount * MsatsPerBtc * Power(rate.scale) /\ usdDen = rate.mantissa * CentsPerUsd
        /\ btcNum = amount * rate.mantissa * CentsPerUsd /\ btcDen = Power(rate.scale) * MsatsPerBtc
  OBVIOUS
<1>7. /\ usdNum \in Nat /\ btcNum \in Nat /\ usdDen \in Nat /\ usdDen > 0 /\ btcDen \in Nat /\ btcDen > 0
      /\ Convert(rate, amount, unit) # Panics
      /\ Convert(rate, amount, unit) # Refused =>
           /\ CurrencyOf(unit) = "usd" => Convert(rate, amount, unit) = Divide(usdNum, usdDen)
           /\ CurrencyOf(unit) # "usd" => Convert(rate, amount, unit) = Divide(btcNum, btcDen)
  BY <1>3, <1>5, <1>6, ConvertsNearest
<1>10. result.kind = "converted" /\ result.detail = Convert(rate, amount, unit) /\ result.detail # Refused
  BY <1>1, <1>2, <1>4, <1>7 DEF rate
<1>8. CASE CurrencyOf(unit) = "usd"
  <2>1. 2 * (Divide(usdNum, usdDen) * usdDen - usdNum) <= usdDen
        /\ -usdDen <= 2 * (Divide(usdNum, usdDen) * usdDen - usdNum)
    BY <1>7, DividesNearest
  <2> QED BY <1>2, <1>4, <1>6, <1>7, <1>8, <1>10, <2>1 DEF ConvertedToNearest, rate
<1>9. CASE CurrencyOf(unit) # "usd"
  <2>1. 2 * (Divide(btcNum, btcDen) * btcDen - btcNum) <= btcDen
        /\ -btcDen <= 2 * (Divide(btcNum, btcDen) * btcDen - btcNum)
    BY <1>7, DividesNearest
  <2> QED BY <1>2, <1>4, <1>6, <1>7, <1>9, <1>10, <2>1 DEF ConvertedToNearest, rate
<1> QED BY <1>8, <1>9

-----------------------------------------------------------------------------
(* What follows: the shortlist of an invoice *)

\* What a shortlist is made of.
LEMMA ListedParts ==
    ASSUME PInv, Asked, Told, result.kind = "shortlist"
    PROVE  /\ given \in Commands /\ result.detail.listed \in WalletListings
           /\ ReadInvoice.network # None
           /\ Msats(given.invoice.amount) \in Nat \cup {Unstated}
           /\ ReadInvoice.msats = Msats(given.invoice.amount)
           /\ IsSequence(scope.envs) /\ None \notin ToSet(scope.envs)
<1>1. given \in Commands /\ result.detail.listed \in WalletListings /\ ReadInvoice.network # None
  BY DEF PInv, Staged, Told, Truthful
<1>2. Msats(given.invoice.amount) # Unreadable /\ ReadInvoice.msats = Msats(given.invoice.amount)
  BY <1>1, InvoiceReads
<1>3. Msats(given.invoice.amount) \in Nat \cup {Unreadable, Unstated}
  BY <1>1, AmountsAreDecimals, MsatsIs
<1>4. IsSequence(scope.envs) /\ None \notin ToSet(scope.envs)
  BY DEF PInv, Steady, IsSequence, Asked, EnvsGiven
<1> QED BY <1>1, <1>2, <1>3, <1>4

\* A candidate is one of the wallets that qualify, each known by its identifier.
LEMMA CandidateParts ==
    ASSUME PInv, Asked, Told, result.kind = "shortlist"
    PROVE  /\ \A c \in result.detail.candidates :
                \E v \in result.detail.listed :
                  /\ Qualifies(v, ReadInvoice, given.payment.currency) /\ c.wallet = v.id
                  /\ c.env = ScopeOf(v, scope.envs)
                  /\ c.quote # None => c.quote = QuoteAmount(ReadInvoice)
           /\ \A v \in result.detail.listed :
                Qualifies(v, ReadInvoice, given.payment.currency) =>
                  \E c \in result.detail.candidates : c.wallet = v.id
           /\ \A v, w \in result.detail.listed : v.id = w.id => v = w
<1> DEFINE listed == result.detail.listed
           wanted == given.payment.currency
           made(v) == Candidate(v, ReadInvoice, wanted, scope.envs)
<1>1. result.detail.candidates = Candidates(listed, ReadInvoice, wanted, scope.envs)
  BY DEF Told, Truthful
<1>2. result.detail.candidates = {made(w) : w \in {v \in listed : Qualifies(v, ReadInvoice, wanted)}}
  BY <1>1 DEF Candidates
<1>3. ASSUME NEW v
      PROVE  /\ made(v).wallet = v.id /\ made(v).env = ScopeOf(v, scope.envs)
             /\ made(v).quote # None => made(v).quote = QuoteAmount(ReadInvoice)
  BY DEF Candidate
<1>4. \A v, w \in listed : v.id = w.id => v = w
  BY ListedParts, WalletsAreListed
<1> HIDE DEF made, listed, wanted
<1>5. \A c \in result.detail.candidates :
        \E v \in listed : Qualifies(v, ReadInvoice, wanted) /\ c = made(v)
  BY <1>2
<1>6. \A v \in listed : Qualifies(v, ReadInvoice, wanted) => made(v) \in result.detail.candidates
  BY <1>2
<1> QED BY <1>3, <1>4, <1>5, <1>6 DEF listed, wanted

\* A wallet that qualifies is of the invoice's network.
LEMMA QualifiesPays ==
    ASSUME NEW w, NEW invoice, NEW wanted, Qualifies(w, invoice, wanted)
    PROVE  w.active /\ Pays(invoice.network, w.network)
BY DEF Qualifies, Qualify

\* What an invoice is refused for, and whose wallets could pay it.
LEMMA InvoiceHolds == PInv /\ Asked /\ Told => InvoiceIsRead
<1> SUFFICES ASSUME PInv, Asked, Told PROVE InvoiceIsRead
  OBVIOUS
<1>1. ASSUME result.kind = "usage", IsFriendlyPayment, result.detail = "invoice"
      PROVE  given.invoice.letters \notin DOMAIN PayingNetworks \/ Msats(given.invoice.amount) = Unreadable
  BY <1>1 DEF Told, Truthful
<1>2. ASSUME result.kind = "shortlist", NEW c \in result.detail.candidates, NEW w \in result.detail.listed,
             w.id = c.wallet
      PROVE  w.network \in PayingNetworks[given.invoice.letters]
  <2>1. Qualifies(w, ReadInvoice, given.payment.currency) /\ ReadInvoice.network # None
    BY <1>2, ListedParts, CandidateParts
  <2>2. Pays(ReadInvoice.network, w.network)
    BY <2>1, QualifiesPays
  <2> QED BY <2>1, <2>2, PaysItsNetwork
<1> QED BY <1>1, <1>2 DEF InvoiceIsRead

\* What qualifies, by the balances alone.
LEMMA QualifiesBy ==
    ASSUME NEW w, NEW invoice, NEW wanted, w.limit \in Nat,
           \A b \in ToSet(w.balances) : b.available \in Nat /\ b.negative \in BOOLEAN,
           NEW msats, msats = invoice.msats, msats \in Nat \cup {Unstated},
           NEW usable, usable = IF wanted = None THEN {"btc", "usd"} ELSE {wanted}
    PROVE  Qualifies(w, invoice, wanted)
             <=> /\ w.active /\ Pays(invoice.network, w.network)
                 /\ \E b \in ToSet(w.balances) :
                      /\ b.currency \in usable /\ Funds(b, w.limit) > 0
                      /\ b.currency = "btc" => Funds(b, w.limit) >= msats
<1> DEFINE could == {b \in ToSet(w.balances) : Usable(b.currency, wanted)}
           funded == {b \in could : Funds(b, w.limit) > 0}
           covers == {b \in funded : b.currency # "btc" \/ Funds(b, w.limit) >= invoice.msats}
<1>1. \A b : Usable(b.currency, wanted) <=> b.currency \in usable
  BY DEF Usable
<1>2. Qualifies(w, invoice, wanted) <=> w.active /\ Pays(invoice.network, w.network) /\ covers # {}
  <2>1. Qualify(w, invoice, wanted)
          = IF ~w.active THEN "inactive"
            ELSE IF ~Pays(invoice.network, w.network) THEN "wrong_network"
            ELSE IF could = {} /\ w.balances # <<>> THEN "wrong_currency"
            ELSE IF funded = {} THEN "no_balance"
            ELSE IF covers = {} THEN "insufficient_balance"
            ELSE IF \E b \in covers : b.currency = "btc" THEN "btc" ELSE "usd"
    BY DEF Qualify
  <2>2. covers # {} => funded # {} /\ could # {}
    OBVIOUS
  <2> HIDE DEF could, funded, covers
  <2> QED BY <2>1, <2>2 DEF Qualifies
<1>3. covers # {} <=> \E b \in ToSet(w.balances) :
                         /\ b.currency \in usable /\ Funds(b, w.limit) > 0
                         /\ b.currency = "btc" => Funds(b, w.limit) >= msats
  BY <1>1
<1> QED BY <1>2, <1>3

\* A wallet is a candidate exactly when it could pay.
LEMMA ShortlistHolds == PInv /\ Asked /\ Told => ShortlistCouldPay
<1> DEFINE usable == IF given.payment.currency = None THEN {"btc", "usd"} ELSE {given.payment.currency}
           money(w, b) == w.limit + (IF b.negative THEN 0 - b.available ELSE b.available)
<1> SUFFICES ASSUME PInv, Asked, Told, result.kind = "shortlist", NEW w \in result.detail.listed
             PROVE  (\E c \in result.detail.candidates : c.wallet = w.id)
                      <=> /\ w.active /\ w.network \in PayingNetworks[given.invoice.letters]
                          /\ \E b \in ToSet(w.balances) :
                               /\ b.currency \in usable /\ money(w, b) > 0
                               /\ b.currency = "btc" => money(w, b) >= Msats(given.invoice.amount)
  BY DEF ShortlistCouldPay
<1>1. /\ result.detail.listed \in WalletListings /\ ReadInvoice.network # None
      /\ Msats(given.invoice.amount) \in Nat \cup {Unstated}
      /\ ReadInvoice.msats = Msats(given.invoice.amount)
  BY ListedParts
<1>2. /\ w.limit \in Nat
      /\ \A b \in ToSet(w.balances) : b.available \in Nat /\ b.negative \in BOOLEAN
  BY <1>1, WalletsAreListed
<1>3. (\E c \in result.detail.candidates : c.wallet = w.id) <=> Qualifies(w, ReadInvoice, given.payment.currency)
  BY CandidateParts
<1>4. Pays(ReadInvoice.network, w.network) <=> w.network \in PayingNetworks[given.invoice.letters]
  BY <1>1, PaysItsNetwork
<1>5. \A b \in ToSet(w.balances) : money(w, b) = Funds(b, w.limit)
  BY <1>2 DEF Funds
<1> HIDE DEF usable, money
<1>6. Qualifies(w, ReadInvoice, given.payment.currency)
        <=> /\ w.active /\ Pays(ReadInvoice.network, w.network)
            /\ \E b \in ToSet(w.balances) :
                 /\ b.currency \in usable /\ Funds(b, w.limit) > 0
                 /\ b.currency = "btc" => Funds(b, w.limit) >= Msats(given.invoice.amount)
  BY <1>1, <1>2, QualifiesBy DEF usable
<1> QED BY <1>3, <1>4, <1>5, <1>6

\* A quote is for exactly the invoice's amount.
LEMMA QuotesExactly ==
    ASSUME NEW invoice, invoice.msats \in Nat
    PROVE  invoice.msats = QuoteAmount(invoice).amount * (IF QuoteAmount(invoice).unit = "sats" THEN 1000 ELSE 1)
<1>1. PICK m \in Nat : m = invoice.msats
  OBVIOUS
<1>2. m # Unstated /\ (m % 1000 = 0 => m = (m \div 1000) * 1000)
  BY DEF Unstated
<1>3. CASE m % 1000 = 0
  <2>1. QuoteAmount(invoice) = [amount |-> m \div 1000, unit |-> "sats"]
    BY <1>1, <1>2, <1>3 DEF QuoteAmount
  <2> QED BY <1>1, <1>2, <1>3, <2>1
<1>4. CASE m % 1000 # 0
  <2>1. QuoteAmount(invoice) = [amount |-> m, unit |-> "msats"]
    BY <1>1, <1>2, <1>4 DEF QuoteAmount
  <2>2. m = m * 1
    OBVIOUS
  <2> QED BY <1>1, <2>1, <2>2
<1> QED BY <1>3, <1>4

\* A candidate is complete.
LEMMA CandidateHolds == PInv /\ Asked /\ Told => CandidateIsComplete
<1> SUFFICES ASSUME PInv, Asked, Told, result.kind = "shortlist", NEW c \in result.detail.candidates
             PROVE  /\ scope.envs = <<>> => \E w \in result.detail.listed : w.id = c.wallet /\ w.env = c.env
                    /\ c.env # None
                    /\ c.quote # None /\ Msats(given.invoice.amount) # Unstated =>
                         Msats(given.invoice.amount) = c.quote.amount * (IF c.quote.unit = "sats" THEN 1000 ELSE 1)
  BY DEF CandidateIsComplete
<1>1. /\ result.detail.listed \in WalletListings
      /\ Msats(given.invoice.amount) \in Nat \cup {Unstated}
      /\ ReadInvoice.msats = Msats(given.invoice.amount)
      /\ IsSequence(scope.envs) /\ None \notin ToSet(scope.envs)
  BY ListedParts
<1>2. PICK v \in result.detail.listed :
        /\ c.wallet = v.id /\ c.env = ScopeOf(v, scope.envs)
        /\ c.quote # None => c.quote = QuoteAmount(ReadInvoice)
  BY CandidateParts
<1>3. v.env # None
  BY <1>1, WalletsAreListed
<1>4. scope.envs # <<>> => scope.envs[1] \in ToSet(scope.envs)
  <2>1. scope.envs # <<>> => 1 \in DOMAIN scope.envs
    BY <1>1 DEF IsSequence
  <2> QED BY <2>1 DEF ToSet
<1>5. c.env # None /\ (scope.envs = <<>> => v.env = c.env)
  BY <1>1, <1>2, <1>3, <1>4 DEF ScopeOf
<1>6. ASSUME c.quote # None, Msats(given.invoice.amount) # Unstated
      PROVE  Msats(given.invoice.amount) = c.quote.amount * (IF c.quote.unit = "sats" THEN 1000 ELSE 1)
  <2>1. ReadInvoice.msats \in Nat
    BY <1>1, <1>6
  <2> QED BY <1>1, <1>2, <1>6, <2>1, QuotesExactly
<1> QED BY <1>2, <1>5, <1>6

\* A request is what was asked for, in wallet, amount, currency and pages, and a shortlist is of the
\* wallets that could pay, for any command lines, listings and prices; a conversion is the nearest, but
\* one to bitcoin at a price whose cents do not fit their width.
THEOREM RequestRight == Spec => []RequestIsRight
<1>1. PInv /\ Asked /\ Told => RequestIsRight
  BY TargetHolds, SpendsHolds, FlagsHold, PagingHolds, CurrencyHolds, AmountsHold, ConvertedHolds,
     InvoiceHolds, ShortlistHolds, CandidateHolds DEF RequestIsRight
<1> QED BY <1>1, Prepared, AskedAndTold, PTL

=============================================================================
