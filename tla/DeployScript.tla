---------------------------- MODULE DeployScript ----------------------------
(***************************************************************************)
(* The machine that runs the deployment tasks: a hardhat process executing *)
(* one task after another against three stores that fail separately:       *)
(*   the chain     contracts, in the order of their addresses; `pending`   *)
(*                 is the creation that is sent and not yet mined;         *)
(*   the provider  what every LendPoolAddressesProvider holds per slot,    *)
(*                 and `facts`, the settings stored in other contracts;    *)
(*   the database  deployments/deployed-contracts-<network>.json, where a  *)
(*                 task finds what an earlier task deployed.               *)
(* A task is a sequence of steps (DeployHelpers, FullTasks, ForkTasks);    *)
(* local variables are registers, lost with the process.  The process can  *)
(* die between two steps, a transaction can fail, and the operator starts  *)
(* the migration again: the database and the chain keep what they have.    *)
(* Which network it is decides the migration, the configuration and the    *)
(* database.                                                               *)
(***************************************************************************)
EXTENDS Naturals, Sequences

CONSTANTS
    Ids,            \* keys of the database
    Slots,          \* keys of LendPoolAddressesProvider._addresses
    Regs,           \* local variables of the tasks
    Migrations,     \* network -> the tasks one start of the script runs, in order
    Configs,        \* network -> the keys set in the pool configuration -> address
    KnownDbs,       \* network -> what the database holds before the first run
    Existing,       \* contracts on the chain before the first run
    Deployer,       \* the account every transaction is sent from
    EtherscanReady, \* key present and network supported
    Attempts,       \* attempts of one verification
    MaxRuns, MaxFaults              \* bounds of the instance

VARIABLES
    network,                                    \* chosen once, on the command line
    chain, pending, book, facts,                \* on the chain
    db,                                         \* on disk
    stage, pc, regs, tries, lost, outcome,      \* the process
    runs, faults                                \* bounded counters

chainVars == <<chain, pending, book, facts>>
procVars  == <<stage, pc, regs, tries, lost, outcome>>
counters  == <<runs, faults>>
vars      == <<network, chainVars, db, procVars, counters>>

Nobody == 0             \* the zero address, and a key with no entry

(* A contract: what it is, the implementation behind it if it is a proxy,  *)
(* who may upgrade it, and the contract it was created for.                *)
Contract == [kind : STRING, impl : Nat, admin : Nat, of : Nat]

(* A step: what it does, with a name, its result or subject and an         *)
(* argument; <<r, b>> in `when` asks that register r is set iff b.         *)
(* A task: its steps, and whether it catches every error to only log it.   *)
StepRecord == [op : STRING, x : STRING, r : Regs, a : Regs, when : SUBSET (Regs \X BOOLEAN)]

TaskRecord == [task : STRING, catches : BOOLEAN, code : Seq(StepRecord)]

Networks == DOMAIN Migrations
StepsOf(t) == {t.code[i] : i \in DOMAIN t.code}
StepsOn(n) == UNION {StepsOf(Migrations[n][t]) : t \in DOMAIN Migrations[n]}
StepsAnywhere == UNION {StepsOn(n) : n \in Networks}
Of(steps, op) == {s.x : s \in {u \in steps : u.op = op}}

(* Slots that only ever get the proxy the provider makes for them. *)
ProxiedSlots == Of(StepsAnywhere, "setProxy") \ Of(StepsAnywhere, "set")

ASSUME DeployAssumption ==
    /\ \A n \in Networks :
         /\ Migrations[n] \in Seq(TaskRecord)
         /\ KnownDbs[n] \in [Ids -> Nat]
         /\ \A key \in DOMAIN Configs[n] : Configs[n][key] \in Nat
    /\ \A s \in StepsAnywhere :
         /\ s.op \in {"load", "put", "save"} => s.x \in Ids
         /\ s.op \in {"set", "get", "setProxy"} => s.x \in Slots
    /\ {"provider", "impl", "admin", "emergency", "uToken", "debtToken", "strategy"} \subseteq Regs
    /\ {"LendPool", "LendPoolLoan", "LendPoolConfigurator", "PoolAdmin", "EmergencyAdmin",
        "UNFTRegistry"} \subseteq Slots
    /\ Existing \in Seq(Contract)
    /\ \A c \in DOMAIN Existing : Existing[c].kind # "LendPoolAddressesProvider"
    /\ Deployer \in DOMAIN Existing /\ Attempts \in Nat /\ MaxRuns \in Nat /\ MaxFaults \in Nat

(* Keys written between sending a contract and waiting for it. *)
EarlyOf(t) ==
    {t.code[i].x : i \in {j \in DOMAIN t.code \ {1} : t.code[j].op = "put" /\ t.code[j - 1].op = "send"}}
EarlyIds == UNION {UNION {EarlyOf(Migrations[n][t]) : t \in DOMAIN Migrations[n]} : n \in Networks}

(* Step j does op with the result of step i, in the same branch.           *)
Follows(code, i, j, op) ==
    /\ j \in DOMAIN code /\ code[j].op = op
    /\ code[j].r = code[i].r /\ code[j].when = code[i].when

(* What step i creates is waited for next, or entered early and waited for *)
(* then; the branch does not test the register it is kept in.              *)
Awaited(code, i) ==
    /\ \A g \in code[i].when : g[1] # code[i].r
    /\ \/ Follows(code, i, i + 1, "save")
       \/ code[i].op = "send" /\ Follows(code, i, i + 1, "put") /\ Follows(code, i, i + 2, "save")

(* No task goes on before its creation is mined, and none looks up a key   *)
(* that is written early.                                                  *)
ASSUME TasksAssumption ==
    \A n \in Networks : \A t \in DOMAIN Migrations[n] :
      LET code == Migrations[n][t].code
      IN  \A i \in DOMAIN code :
            /\ code[i].op \in {"send", "sendProxy"} => Awaited(code, i)
            /\ code[i].op = "load" => code[i].x \notin EarlyIds

(* The configuration and the first database name contracts that are there. *)
ASSUME AddressesAssumption ==
    \A n \in Networks :
      /\ \A key \in DOMAIN Configs[n] : Configs[n][key] = 0 \/ Configs[n][key] \in DOMAIN Existing
      /\ \A id \in Ids : KnownDbs[n][id] = 0 \/ KnownDbs[n][id] \in DOMAIN Existing

(* Step i of task t makes the market of a start: no step before it touches *)
(* a provider, no other step makes one or enters one in the database, and  *)
(* the later tasks find theirs in the database.                            *)
Assigns(s) == s.op \in {"config", "load", "send", "sendProxy", "get"}
MarketKey == "LendPoolAddressesProvider"        \* the key and the contract

MakesMarket(tasks, t, i) ==
    /\ ~tasks[t].catches
    /\ LET code == tasks[t].code
       IN  /\ code[i].op = "send" /\ code[i].x = MarketKey
           /\ code[i].r = "provider" /\ code[i].when = {}
           /\ Follows(code, i, i + 1, "save") /\ code[i + 1].x = MarketKey
    /\ \A u \in DOMAIN tasks : \A j \in DOMAIN tasks[u].code :
         LET s == tasks[u].code[j]
             after == u > t \/ (u = t /\ j > i + 1)
         IN  u # t \/ j \notin {i, i + 1} =>
               /\ s.op \in {"put", "save", "send"} => s.x # MarketKey
               /\ s.op \in {"set", "setProxy"} => after
               /\ Assigns(s) /\ s.r = "provider" => after /\ s.op = "load" /\ s.x = MarketKey

ASSUME MarketFirstAssumption ==
    \A n \in Networks : \E t \in DOMAIN Migrations[n] : \E i \in DOMAIN Migrations[n][t].code :
      MakesMarket(Migrations[n], t, i)

(* Steps j and k lift the pause of a market's pool: they look up its       *)
(* configurator and call it, in every case.                                *)
Pauses(s) == s.op \in {"call", "post"} /\ s.x = "paused"

LiftsPause(code, j, k) ==
    /\ code[j].op = "get" /\ code[j].x = "LendPoolConfigurator" /\ code[j].when = {}
    /\ code[k].op = "call" /\ code[k].x = "unpaused" /\ code[k].when = {}
    /\ j < k /\ code[k].r = code[j].r
    /\ \A l \in (j + 1)..(k - 1) : code[l].op = "config" /\ code[l].r # code[j].r

(* A migration that pauses a pool lifts the pause in a task that swallows  *)
(* no error, and no task after that pauses it again.                       *)
ASSUME PausesAssumption ==
    /\ {"LendPool", "LendPoolConfigurator"} \subseteq ProxiedSlots
    /\ \A s \in StepsAnywhere :
         /\ Assigns(s) => s.r # "none"
         /\ s.x \in {"paused", "unpaused"} => s.a = "none"
    /\ \A n \in Networks : (\E s \in StepsOn(n) : Pauses(s)) =>
         \E t \in DOMAIN Migrations[n] :
           LET task == Migrations[n][t]
           IN  /\ ~task.catches
               /\ \E k \in DOMAIN task.code : \E j \in DOMAIN task.code : LiftsPause(task.code, j, k)
               /\ \A u \in t..Len(Migrations[n]) : \A s \in StepsOf(Migrations[n][u]) : ~Pauses(s)

NoRegs  == [r \in Regs |-> Nobody]
NoSlots == [s \in Slots |-> Nobody]

Addresses  == DOMAIN chain
IsProvider(c) == c.kind = "LendPoolAddressesProvider" /\ c.impl = Nobody
Providers  == {p \in Addresses : IsProvider(chain[p])}
NextAddress == Len(chain) + 1

(* What the provider of a contract says, and the settings of contracts.    *)
SlotOf(p, s) == IF p \in DOMAIN book THEN book[p][s] ELSE Nobody
PoolOf(c) == SlotOf(c.of, "LendPool")
Fact(c, what, of) == [at |-> c, what |-> what, of |-> of]

-----------------------------------------------------------------------------
(* Where the process is. *)

(* `stage` is the task of the migration, `pc` the step of that task.       *)

Migration == Migrations[network]
Config == Configs[network]
Running == outcome = "running"
TaskName == Migration[stage].task
Code == IF stage = 0 THEN <<>> ELSE Migration[stage].code
AtEnd == pc > Len(Code)
Current == Code[pc]

Holds(s) == \A g \in s.when : (regs[g[1]] # Nobody) = g[2]

Doing(op) == Running /\ ~AtEnd /\ Holds(Current) /\ Current.op = op

Reg(r) == regs[r]
Provider == regs["provider"]

Advance ==
    /\ pc' = pc + 1
    /\ UNCHANGED <<stage, tries, lost, outcome>>

Keep(r, a) == regs' = [regs EXCEPT ![r] = a]

\* Mutant: nobody awaits the call that throws.
RaiseUnheard == tries' = 0 /\ pc' = pc + 1 /\ UNCHANGED <<stage, regs, lost, outcome>>

\* Mutant: the end of the task is off by one.
RaisePastEnd ==
    /\ tries' = 0 /\ lost' = lost \union {TaskName} /\ pc' = Len(Code) + 2
    /\ UNCHANGED <<stage, regs, outcome>>

(* An error inside a task.  A task with a catch that only logs ends early  *)
(* and the migration goes on; any other error ends the process.            *)
Raise ==
    /\ tries' = 0
    /\ IF Migration[stage].catches
       THEN lost' = lost \union {TaskName} /\ pc' = Len(Code) + 1 /\ UNCHANGED outcome
       ELSE outcome' = "aborted" /\ UNCHANGED <<lost, pc>>
    /\ UNCHANGED <<stage, regs>>

-----------------------------------------------------------------------------
(* Steps that read the configuration and the database. *)

SkipStep ==
    /\ Running /\ ~AtEnd /\ ~Holds(Current)
    /\ Advance
    /\ UNCHANGED <<chainVars, db, regs, counters>>

Setting(key) == IF key \in DOMAIN Config THEN Config[key] ELSE Nobody

Configured ==
    /\ Doing("config")
    /\ Advance /\ Keep(Current.r, Setting(Current.x))
    /\ UNCHANGED <<chainVars, db, counters>>

Load ==
    /\ Doing("load")
    /\ IF db[Current.x] # Nobody
       THEN Advance /\ Keep(Current.r, db[Current.x])
       ELSE Raise
    /\ UNCHANGED <<chainVars, db, counters>>

(* A value the task cannot do without, one that must be the signer, a      *)
(* verification that must be possible: throws or exits when it is not so.  *)
Satisfied(what, a) ==
    \/ what = "address" /\ a # Nobody
    \/ what = "signer" /\ a = Deployer
    \/ what = "etherscan" /\ EtherscanReady

Need ==
    /\ Doing("need")
    /\ IF Satisfied(Current.x, Reg(Current.r)) THEN Advance ELSE Raise
    /\ UNCHANGED <<chainVars, db, counters, regs>>

Put ==
    /\ Doing("put")
    /\ db' = [db EXCEPT ![Current.x] = Reg(Current.r)]
    /\ Advance
    /\ UNCHANGED <<chainVars, regs, counters>>

-----------------------------------------------------------------------------
(* Steps that create contracts: send the creation, wait for it and only    *)
(* then write the database, verify the source.                             *)

Send ==
    /\ Doing("send")
    /\ pending' = <<[kind |-> Current.x, impl |-> Nobody, admin |-> Deployer,
                     of |-> Reg(Current.a)]>>
    /\ Keep(Current.r, NextAddress)
    /\ Advance
    /\ UNCHANGED <<chain, book, facts, db, counters>>

SendProxy ==
    /\ Doing("sendProxy")
    /\ IF Reg("impl") \in Addresses
       THEN /\ pending' = <<[kind |-> chain[Reg("impl")].kind, impl |-> Reg("impl"),
                             admin |-> Reg("admin"), of |-> Reg(Current.a)]>>
            /\ Keep(Current.r, NextAddress)
            /\ Advance
       ELSE Raise /\ UNCHANGED pending
    /\ UNCHANGED <<chain, book, facts, db, counters>>

(* What the constructor of a proxy does through initialize: a gateway      *)
(* approves the pool its provider names at that moment, a new NFT oracle   *)
(* takes prices from the configurator it is given.                         *)
Initialized(at, c) ==
    IF c.impl = Nobody THEN {}
    ELSE IF c.kind \in {"WETHGateway", "PunkGateway"} THEN {Fact(at, "pool", PoolOf(c))}
    ELSE IF c.kind = "NFTOracle" THEN {Fact(at, "priceManager", c.of)}
    ELSE {}

Mine ==
    LET created == {pending[i] : i \in DOMAIN pending}
        providers == {c \in created : IsProvider(c)}
    IN  /\ chain' = chain \o pending
        /\ pending' = <<>>
        /\ book' = IF providers = {} THEN book
                   ELSE [p \in DOMAIN book \union {NextAddress} |->
                           IF p \in DOMAIN book THEN book[p] ELSE NoSlots]
        /\ facts' = facts \union UNION {Initialized(NextAddress, c) : c \in created}

\* Mutant: an entry of an earlier market is kept.
SaveOnce ==
    /\ Doing("save")
    /\ Mine
    /\ db' = [db EXCEPT ![Current.x] = IF @ = Nobody THEN Reg(Current.r) ELSE @]
    /\ Advance
    /\ UNCHANGED <<regs, counters>>

Save ==
    /\ Doing("save")
    /\ Mine
    /\ db' = [db EXCEPT ![Current.x] = Reg(Current.r)]
    /\ Advance
    /\ UNCHANGED <<regs, counters>>

\* Mutant: the entry is written although the creation was never mined.
DropRecorded ==
    /\ Doing("save") /\ Raise
    /\ faults < MaxFaults
    /\ pending' = <<>>
    /\ db' = [db EXCEPT ![Current.x] = Reg(Current.r)]
    /\ faults' = faults + 1
    /\ UNCHANGED <<network, chain, book, facts, runs>>

\* Mutant: no task waits for the transactions it sends.
DropUnheard ==
    /\ \E op \in {"save", "setProxy", "set", "upgrade", "call", "post"} : Doing(op)
    /\ Advance
    /\ faults < MaxFaults
    /\ pending' = <<>>
    /\ faults' = faults + 1
    /\ UNCHANGED <<network, chain, book, facts, db, regs, runs>>

(* A transaction fails or is never mined: waitForTx throws; nobody hears   *)
(* of one the task does not wait for.                                      *)
Drop ==
    /\ \/ \E op \in {"save", "setProxy", "set", "upgrade", "call"} : Doing(op) /\ Raise
       \/ Doing("post") /\ Advance /\ UNCHANGED regs
    /\ faults < MaxFaults
    /\ pending' = <<>>
    /\ faults' = faults + 1
    /\ UNCHANGED <<network, chain, book, facts, db, runs>>

VerifyEtherscanContract ==
    /\ Doing("verify") /\ tries = 0
    /\ IF EtherscanReady
       THEN tries' = Attempts /\ UNCHANGED <<stage, pc, regs, lost, outcome>>
       ELSE Raise
    /\ UNCHANGED <<chainVars, db, counters>>

\* Mutant: the attempts start over.
RetryForever ==
    /\ Doing("verify") /\ tries > 0
    /\ \E retry \in BOOLEAN :
         IF retry THEN tries' = (IF tries > 1 THEN tries - 1 ELSE Attempts) /\ UNCHANGED pc
         ELSE tries' = 0 /\ pc' = pc + 1
    /\ UNCHANGED <<chainVars, db, stage, regs, lost, outcome, counters>>

(* One attempt: verified, already verified or fatal ends it, any other     *)
(* error costs an attempt; after the last one the deployment goes on.      *)
RunTaskWithRetry ==
    /\ Doing("verify") /\ tries > 0
    /\ \E retry \in BOOLEAN :
         IF retry /\ tries > 1
         THEN tries' = tries - 1 /\ UNCHANGED pc
         ELSE tries' = 0 /\ pc' = pc + 1
    /\ UNCHANGED <<chainVars, db, stage, regs, lost, outcome, counters>>

-----------------------------------------------------------------------------
(* Steps that call LendPoolAddressesProvider. *)

HasProvider == Provider \in DOMAIN book

\* Mutant: an upgrade does not look for the proxy that is there.
StandingNone(slot) == Nobody

Standing(slot) == book[Provider][slot]

\* Mutant: the deployer administers the proxy.
NewProxyOfDeployer(impl) ==
    [kind |-> chain[impl].kind, impl |-> impl, admin |-> Deployer, of |-> Provider]

NewProxy(impl) == [kind |-> chain[impl].kind, impl |-> impl, admin |-> Provider, of |-> Provider]

(* _updateImpl: the first implementation of a slot creates its proxy and   *)
(* initializes it with the provider, a later one upgrades that proxy.      *)
SetProxy ==
    LET impl == Reg(Current.r)
        old == Standing(Current.x)
    IN  /\ Doing("setProxy")
        /\ IF HasProvider /\ impl \in Addresses /\ (old # Nobody => chain[old].admin = Provider)
           THEN /\ Advance
                /\ \/ /\ old = Nobody
                      /\ chain' = Append(chain, NewProxy(impl))
                      /\ book' = [book EXCEPT ![Provider][Current.x] = NextAddress]
                   \/ /\ old # Nobody
                      /\ chain' = [chain EXCEPT ![old].impl = impl]
                      /\ UNCHANGED book
           ELSE Raise /\ UNCHANGED <<chain, book>>
        /\ UNCHANGED <<pending, facts, db, regs, counters>>

SetSlot ==
    /\ Doing("set")
    /\ IF HasProvider /\ (Current.x # "UIDataProvider" => Reg(Current.r) # Nobody)
       THEN book' = [book EXCEPT ![Provider][Current.x] = Reg(Current.r)] /\ Advance
       ELSE Raise /\ UNCHANGED book
    /\ UNCHANGED <<chain, pending, facts, db, regs, counters>>

GetSlot ==
    /\ Doing("get")
    /\ IF HasProvider
       THEN Advance /\ Keep(Current.r, book[Provider][Current.x])
       ELSE Raise
    /\ UNCHANGED <<chainVars, db, counters>>

(* UnlockdProxyAdmin.upgrade: only the admin the proxy was created with.   *)
Upgrade ==
    LET proxy == Reg(Current.r)
        impl == Reg("impl")
    IN  /\ Doing("upgrade")
        /\ IF /\ proxy \in Addresses /\ impl \in Addresses
              /\ chain[proxy].impl # Nobody /\ chain[proxy].admin = Reg("admin")
           THEN chain' = [chain EXCEPT ![proxy].impl = impl] /\ Advance
           ELSE Raise /\ UNCHANGED chain
        /\ UNCHANGED <<pending, book, facts, db, regs, counters>>

-----------------------------------------------------------------------------
(* Steps that call any other contract. *)

PoolAdminSettings ==
    {"reserve", "configured", "borrowing", "rate", "nft", "nftConfigured",
     "bidDelta", "timeframe", "newUToken", "newDebtToken"}
OwnSettings  == {"discount", "authorizedPool"}
PoolSettings == PoolAdminSettings \union {"paused", "unpaused"}

(* What the called contract requires. *)
Allowed(what, c, arg) ==
    /\ what \in PoolSettings =>
         /\ SlotOf(chain[c].of, "LendPoolConfigurator") = c
         /\ PoolOf(chain[c]) # Nobody
    /\ what \in PoolAdminSettings \union OwnSettings =>
         SlotOf(chain[c].of, "PoolAdmin") = Deployer
    /\ what \in {"paused", "unpaused"} =>
         SlotOf(chain[c].of, "EmergencyAdmin") = Reg("emergency")
    /\ what \in {"reserve", "nft"} =>
         arg \in Addresses /\ Fact(PoolOf(chain[c]), what, arg) \notin facts
    /\ what = "reserve" => {Reg("uToken"), Reg("debtToken")} \subseteq Addresses
    /\ what \in {"newUToken", "newDebtToken"} => Fact(PoolOf(chain[c]), "reserve", arg) \in facts
    /\ what = "nft" =>
         /\ Fact(SlotOf(chain[c].of, "UNFTRegistry"), "uNFT", arg) \in facts
         /\ SlotOf(chain[c].of, "LendPoolLoan") # Nobody
    /\ what = "uNFT" => Fact(c, what, arg) \notin facts

(* Where a setting is stored: the pool for what its configurator sets. *)
Stored(what, c, arg) ==
    CASE what = "unpaused" -> facts \ {Fact(PoolOf(chain[c]), "paused", arg)}
      [] what = "reserve"  -> facts \union {Fact(PoolOf(chain[c]), "reserve", arg),
                                            Fact(PoolOf(chain[c]), "rate", Reg("strategy"))}
      [] what \in PoolSettings \ {"unpaused", "reserve"} ->
           facts \union {Fact(PoolOf(chain[c]), what, arg)}
      [] what = "approve"  -> facts \union {Fact(c, what, arg), Fact(c, "pool", PoolOf(chain[c]))}
      [] OTHER -> facts \union {Fact(c, what, arg)}

(* A call to an address without code succeeds and does nothing. *)
Call ==
    LET c == Reg(Current.r)
        arg == Reg(Current.a)
    IN  /\ Doing("call") \/ Doing("post")
        /\ \/ c \notin Addresses /\ Advance /\ UNCHANGED facts
           \/ c \in Addresses /\ Allowed(Current.x, c, arg) /\ Advance
              /\ facts' = Stored(Current.x, c, arg)
           \/ c \in Addresses /\ ~Allowed(Current.x, c, arg) /\ Raise /\ UNCHANGED facts
        /\ UNCHANGED <<chain, pending, book, db, regs, counters>>

-----------------------------------------------------------------------------
(* The process. *)

NextTask ==
    /\ Running /\ AtEnd /\ stage < Len(Migration)
    /\ stage' = stage + 1 /\ pc' = 1 /\ regs' = NoRegs
    /\ UNCHANGED <<chainVars, db, tries, lost, outcome, counters>>

Finish ==
    /\ Running /\ AtEnd /\ stage = Len(Migration)
    /\ outcome' = "finished"
    /\ UNCHANGED <<chainVars, db, stage, pc, regs, tries, lost, counters>>

(* The process dies; a creation that was sent is mined later or never. *)
Crash ==
    /\ Running /\ faults < MaxFaults
    /\ faults' = faults + 1
    /\ \/ Mine
       \/ pending' = <<>> /\ UNCHANGED <<chain, book, facts>>
    /\ tries' = 0 /\ outcome' = "crashed"
    /\ UNCHANGED <<network, db, stage, pc, regs, lost, runs>>

(* The operator starts the migration: the first time, after a run that     *)
(* failed, or for one more market.                                         *)
Start ==
    /\ ~Running /\ runs < MaxRuns
    /\ runs' = runs + 1
    /\ stage' = 0 /\ pc' = 1 /\ regs' = NoRegs /\ lost' = {} /\ outcome' = "running"
    /\ UNCHANGED <<network, chainVars, db, tries, faults>>

Work ==
    /\ UNCHANGED network
    /\ \/ SkipStep \/ Configured \/ Load \/ Need \/ Put \/ Send \/ SendProxy \/ Save
       \/ VerifyEtherscanContract \/ RunTaskWithRetry
       \/ SetProxy \/ SetSlot \/ GetSlot \/ Upgrade \/ Call \/ NextTask \/ Finish

Init ==
    /\ network \in Networks
    /\ chain = Existing /\ pending = <<>> /\ facts = {}
    /\ book = [p \in {} |-> NoSlots]
    /\ db = KnownDbs[network]
    /\ stage = 0 /\ pc = 1 /\ regs = NoRegs
    /\ tries = 0 /\ lost = {} /\ outcome = "idle"
    /\ runs = 0 /\ faults = 0

Next == Work \/ Drop \/ Crash \/ Start

Spec == Init /\ [][Next]_vars

(* The event loop of the process goes on and the operator tries again      *)
(* after a failure; a lost transaction and a crash may or may not happen.  *)
Fairness == WF_vars(Work) /\ WF_vars(Start /\ outcome # "finished")
FairSpec == Spec /\ Fairness

-----------------------------------------------------------------------------
(* Properties. *)

Steps(t) == StepsOf(Migration[t])
AllSteps == StepsOn(network)

(* The market the database names. *)
Market == db["LendPoolAddressesProvider"]

FactNames == {s.x : s \in StepsAnywhere} \union {"pool", "rate", "priceManager"}

DeployTypeOK ==
    /\ network \in Networks
    /\ chain \in Seq(Contract) /\ pending \in Seq(Contract) /\ Len(pending) \in 0..1
    /\ book \in [Providers -> [Slots -> Nat]]
    /\ facts \subseteq [at : Nat, what : FactNames, of : Nat]
    /\ db \in [Ids -> Nat] /\ regs \in [Regs -> Nat]
    /\ stage \in 0..Len(Migration) /\ pc \in 1..(Len(Code) + 1)
    /\ tries \in 0..Attempts
    /\ lost \subseteq {Migration[t].task : t \in DOMAIN Migration}
    /\ outcome \in {"idle", "running", "crashed", "aborted", "finished"}
    /\ runs \in 0..MaxRuns /\ faults \in 0..MaxFaults

(* What stands in a slot set as a proxy is a proxy this provider made and  *)
(* may upgrade, for itself: no setXImpl of a later task can fail on it.    *)
ProxySlotsOwned ==
    \A p \in Providers, s \in ProxiedSlots :
      book[p][s] # Nobody =>
        /\ book[p][s] \in Addresses
        /\ chain[book[p][s]].impl # Nobody
        /\ chain[book[p][s]].admin = p /\ chain[book[p][s]].of = p

(* A migration that ends says so truthfully: the market the database names *)
(* is registered, every task that did not swallow an error has set all its *)
(* slots, and the reserves and collections went into the pool of this      *)
(* market, whatever failed in this start or an earlier one.                *)
FinishedIsComplete ==
    outcome = "finished" =>
      /\ Market \in Providers
      /\ \E f \in facts : f.what = "registered" /\ f.of = Market
      /\ \A t \in DOMAIN Migration : Migration[t].task \notin lost =>
           \A s \in Of(Steps(t), "set") \union Of(Steps(t), "setProxy") : book[Market][s] # Nobody
      /\ \A what \in Of(AllSteps, "call") \intersect {"reserve", "nft"} :
           \E f \in facts : f.what = what /\ f.at = SlotOf(Market, "LendPool")

(* The keys of the database whose contract the provider names too.         *)
Named == {<<"LendPool", "LendPool">>, <<"LendPoolLoan", "LendPoolLoan">>,
          <<"LendPoolConfigurator", "LendPoolConfigurator">>, <<"UNFTRegistry", "UNFTRegistry">>,
          <<"LockeyManager", "LOCKEY_MANAGER">>, <<"DebtMarket", "DEBT_MARKET">>,
          <<"WETHGateway", "WETH_GATEWAY">>, <<"PunkGateway", "PUNK_GATEWAY">>}

(* The entries that the tasks which swallowed an error were to write.      *)
Spoilt == UNION {Of(Steps(t), "save") : t \in {u \in DOMAIN Migration : Migration[u].task \in lost}}

(* After a migration the database and the provider name one market: no     *)
(* entry of a task that went through is left over from an earlier market,  *)
(* and both gateways have approved this market's pool.                     *)
OneMarket ==
    outcome = "finished" =>
      \A n \in {m \in Named : m[1] \in Ids \ Spoilt /\ m[2] \in Slots} :
        LET c == SlotOf(Market, n[2])
        IN  c # Nobody =>
              /\ db[n[1]] = c
              /\ n[2] \in {"WETH_GATEWAY", "PUNK_GATEWAY"} =>
                   Fact(c, "pool", SlotOf(Market, "LendPool")) \in facts

(* Outside the keys that are written before the creation is mined, the     *)
(* database never names a contract that is not on the chain, whenever the  *)
(* process dies.                                                           *)
DbEntriesMined == \A id \in Ids \ EarlyIds : db[id] # Nobody => db[id] \in Addresses

(* A migration never leaves its pool paused, also when the task that       *)
(* pauses it failed half way and the error was swallowed.                  *)
PoolUnpaused ==
    outcome = "finished" =>
      ~\E f \in facts : f.what = "paused" /\ f.at = SlotOf(Market, "LendPool")

(* Once a start has made a newer provider, nothing writes to an older      *)
(* market any more: neither its slots nor what its pool is set to.         *)
Superseded(p) == \E q \in Providers : q > p
FactsAt(c) == {f \in facts : f.at = c}
SupersededUntouched ==
    [][\A p \in Providers : Superseded(p) =>
         book'[p] = book[p] /\ FactsAt(SlotOf(p, "LendPool"))' = FactsAt(SlotOf(p, "LendPool"))]_vars

(* With as many starts as there are faults and one more, the migration     *)
(* finishes at last: no crash leaves the database or the chain in a state  *)
(* that keeps the next start from finishing.                               *)
FinishesEventually == <>(outcome = "finished")

(* What all this amounts to, in Markets: every market gets each of its     *)
(* proxies once, at an address of its own.                                 *)
MarketsOf == INSTANCE Markets WITH
    Fixed <- ProxiedSlots,
    markets <- [p \in DOMAIN book |-> [s \in ProxiedSlots |-> book[p][s]]]
MarketsImplemented == MarketsOf!Spec
=============================================================================
